---- MODULE Spec2Model ----
(***************************************************************************)
(* Kibitz core: the adaptive commentary engine (core/commentary.ts), the   *)
(* session watcher (core/watcher.ts) and the session dispatch service      *)
(* (core/session-dispatch.ts), each as a state machine over one shared     *)
(* set of variables.  SpecEngine, SpecWatcher and SpecDispatch are the     *)
(* specifications of the three components; SpecBurst runs the engine on a  *)
(* clock, SpecCommentary is one call of generateCommentary and             *)
(* SpecDispatchFair adds the scheduling of the dispatch.  SpecProgress,     *)
(* SpecRuns and SpecHistory feed the engine with other arrivals;            *)
(* SpecCommand, SpecInterval, SpecShared, SpecTitles, SpecFormats,          *)
(* SpecAssessed and SpecTailing each run one part of the program on its     *)
(* own variable.  A component's variables stay fixed under the              *)
(* specifications of the other components.                                  *)
(***************************************************************************)
EXTENDS Integers, Sequences, FiniteSets, TLC

VARIABLES
  \* ---- CommentaryEngine
  sessions,        \* Map<string, SessionState>: key -> [events, idleTimer, maxTimer, recentCommentary]
  flushQueue,      \* string[]
  queuedSessions,  \* Set<string>
  generating,      \* boolean
  paused,          \* boolean
  inflight,        \* pending generateCommentary calls: set of [key, batch]
  accepted,        \* per key: number of events addEvent has accepted so far
  requests,        \* the calls of generateCommentary so far, in order: [key, batch]
  engineEmitted,   \* the events the engine emitted in the latest step, in order
  estep,           \* the step of the engine taken last: <<name, key>>
  timerDue,        \* per key: the times the armed idle and max-wait timers are due
  burst,           \* the events of the burst so far: their types, first and last arrival
  generation,      \* one call of generateCommentary: its inputs, its phase, what it emitted
  \* ---- file system and clock
  files,           \* path -> [exists, prefixLines, lines, mtime]
  now,             \* Date.now()
  \* ---- SessionWatcher
  watched,         \* Map<string, WatchedFile> in insertion order: sequence of records
  lastRead,        \* the file of the readNewLines call of the latest step, or "none"
  emitted,         \* the 'event' emissions of the latest step, in order
  everIgnored,     \* files one of whose records has had ignore = true
  registered,      \* per file: how often watchFile built a record of it, and the
                   \* number of lines the file held the last time it did
  thrown,          \* the latest step raised an exception out of the watcher
  \* ---- SessionDispatchService: one call of dispatch()
  dphase,          \* position of the call: idle, spawning, waiting, interactive, done
  request,         \* the DispatchRequest of the call
  trail,           \* the states of the 'status' emissions of the call, in order
  launched,        \* the commands handed to spawn() or to the interactive launcher
  child,           \* the launched process: none, starting, running (in the background),
                   \* foreground (interactive, stdio inherited), exit0, exitFail
  beforeDispatch,  \* the SessionFileSnapshot taken before the launch
  activeMatch,     \* the Session View entry the target matched
  polling,         \* the loop of waitForDispatchAcknowledgement is alive
  decidedBy,       \* the code path that emitted the terminal status
  viewAtCall,      \* what getActiveSessions returned (would return) when dispatch() was called
  viewCalls,       \* the calls of options.getActiveSessions the call has made
  echoedBeforeExit,\* the instruction fragment was appended while the process was running
  dstep,           \* the step of the service taken last
  \* ---- pure functions, one call each
  built,           \* buildExistingDispatchCommand: its arguments and its result
  \* ---- the summary interval
  shared,          \* ~/.kibitz/summary-interval, and the latest call that wrote or read it
  tuning,         \* the engine's interval, the delays of the armed timers per session
                   \* (0: not armed), the pending events, the emissions of the latest step
  \* ---- session titles
  titling,        \* the thread-title store and its cache, the log of a Codex session, its
                   \* record, the titles of the latest step
  \* ---- format templates
  formats,        \* the enabled format styles, the style of the latest pick and of the
                   \* pick before it
  \* ---- the assessment of a batch
  assessed,       \* buildCommentaryAssessment: the batch handed to it and its result
  \* ---- runs of events
  arrivals,       \* the runs of events that have arrived in the behaviours that fill a
                   \* batch to the hard cap
  \* ---- a file read while it is written
  tailing         \* the bytes of a tracked file in pieces of half a line, the offset of its
                   \* record, the texts handed to the decoder, the lines decoded

batchingVars == <<sessions, flushQueue, queuedSessions, generating, paused, inflight, accepted,
                  requests, engineEmitted, estep, timerDue, burst>>

engineVars == <<sessions, flushQueue, queuedSessions, generating, paused, inflight, accepted,
                requests, engineEmitted, estep, timerDue, burst, generation>>

timingVars == <<timerDue, burst>>

fsVars == <<files, now>>

watcherVars == <<watched, lastRead, emitted, everIgnored, registered, thrown>>

auxVars == <<built, shared, tuning, titling, formats, assessed, arrivals, tailing>>

dispatchVars == <<dphase, request, trail, launched, child, beforeDispatch, activeMatch,
                  polling, decidedBy, viewAtCall, viewCalls, echoedBeforeExit, dstep>>

vars == <<sessions, flushQueue, queuedSessions, generating, paused, inflight, accepted,
          requests, engineEmitted, estep, timerDue, burst, generation,
          files, now, watched, lastRead, emitted, everIgnored, registered, thrown,
          dphase, request, trail, launched, child, beforeDispatch, activeMatch,
          polling, decidedBy, viewAtCall, viewCalls, echoedBeforeExit, dstep,
          built, shared, tuning, titling, formats, assessed, arrivals, tailing>>

-----------------------------------------------------------------------------
(* Bounds of the model *)

NumSessions == 2
MaxAccept == 3
MaxAppends == 3          \* lines appended to the log files in one behaviour
MaxTicks == 2            \* clock advances in one behaviour
MaxRemovals == 1         \* log files removed in one behaviour
TickMs == 200000         \* one clock advance
LongPrefixLines == 50    \* lines a long log file holds before the watcher starts
SmallLineBytes == 100    \* size of an ordinary log line
BigLineBytes == 3000     \* size of a long log line
MaxDispatchLines == 4    \* lines in the log files at the end of a dispatch behaviour
BurstToolCalls == 5      \* tool-call events of the burst
BurstMessages == 2       \* message events of the burst
BurstTickMs == 2500      \* one clock advance while the burst is handled
MaxBurstMs == 20000      \* the clock stops advancing here
MaxBatchEvents == 2      \* events of the batch handed to generateCommentary
MaxTextLines == 2        \* lines of the text the backend returns
MaxFairEvents == 3       \* events of all sessions in the behaviours checked for progress
MaxIntervalEvents == 2   \* events a session accumulates while the interval changes

(* Program constants *)

MIN_BATCH_SIZE == 1
MAX_BATCH_SIZE == 40
IDLE_TIMEOUT_MS == 5000
MAX_WAIT_MS == 15000
RECENT_COMMENTARY_LIMIT == 5
ACTIVE_SESSION_WINDOW_MS == 300000
CODEX_PROBE_LINES == 50
CLAUDE_PROBE_LINES == 20
SESSION_ID_PROBE_BYTES == 524288
MIN_SIGNATURE_LENGTH == 4
SIGNATURE_MAX_LENGTH == 160
TAIL_LOOKBACK_BYTES == 2048
TAIL_MAX_BYTES == 524288

-----------------------------------------------------------------------------
(* CommentaryEngine *)

Keys == 1..NumSessions

EventTypes == {"tool_call", "message", "tool_result", "meta"}

NewSessionState == [events |-> << >>, idleTimer |-> "none", maxTimer |-> FALSE,
                    recentCommentary |-> << >>]

\* The engine at the start of a step; out gathers what the step emits
Engine == [sessions |-> sessions, flushQueue |-> flushQueue,
           queuedSessions |-> queuedSessions, generating |-> generating,
           inflight |-> inflight, requests |-> requests, out |-> << >>]

EnsureSessionState(e, key) ==
  IF key \in DOMAIN e.sessions THEN e
  ELSE [e EXCEPT !.sessions = [k \in DOMAIN e.sessions \cup {key} |->
                                 IF k = key THEN NewSessionState ELSE e.sessions[k]]]

ClearSessionTimers(st) == [st EXCEPT !.idleTimer = "none", !.maxTimer = FALSE]

\* The loop with `state.events.slice(0)`: the batch is copied, not taken
RECURSIVE FlushLoopCopiesBatch(_)
FlushLoopCopiesBatch(e) ==
  IF e.flushQueue = << >> THEN e
  ELSE LET key == Head(e.flushQueue)
           e1 == [e EXCEPT !.flushQueue = Tail(@), !.queuedSessions = @ \ {key}]
       IN IF key \notin DOMAIN e1.sessions \/ e1.sessions[key].events = << >>
          THEN FlushLoopCopiesBatch(e1)
          ELSE [e1 EXCEPT !.generating = TRUE,
                          !.inflight = @ \cup {[key |-> key, batch |-> e1.sessions[key].events]},
                          !.requests = Append(@, [key |-> key, batch |-> e1.sessions[key].events]),
                          !.out = Append(@, [event |-> "commentary-start", key |-> key])]

\* The body of the while loop of processFlushQueue, run until the invocation
\* suspends at `await generateCommentary` or the queue is empty.
RECURSIVE FlushLoop(_)
FlushLoop(e) ==
  IF e.flushQueue = << >> THEN e
  ELSE LET key == Head(e.flushQueue)
           e1 == [e EXCEPT !.flushQueue = Tail(@), !.queuedSessions = @ \ {key}]
       IN IF key \notin DOMAIN e1.sessions \/ e1.sessions[key].events = << >>
          THEN FlushLoop(e1)
          ELSE [e1 EXCEPT !.sessions[key].events = << >>,
                          !.generating = TRUE,
                          !.inflight = @ \cup {[key |-> key, batch |-> e1.sessions[key].events]},
                          !.requests = Append(@, [key |-> key, batch |-> e1.sessions[key].events]),
                          !.out = Append(@, [event |-> "commentary-start", key |-> key])]

ProcessFlushQueue(e) == IF e.generating THEN e ELSE FlushLoop(e)

\* enqueueFlush with unshift in place of push
EnqueueFlushAtFront(e, key) ==
  IF key \in e.queuedSessions THEN e
  ELSE ProcessFlushQueue([e EXCEPT !.queuedSessions = @ \cup {key},
                                   !.flushQueue = <<key>> \o @])

EnqueueFlush(e, key) ==
  IF key \in e.queuedSessions THEN e
  ELSE ProcessFlushQueue([e EXCEPT !.queuedSessions = @ \cup {key},
                                   !.flushQueue = Append(@, key)])

\* requestFlush with a minimum batch size of two events
RequestFlushMinimumTwo(e, key, force) ==
  IF key \notin DOMAIN e.sessions THEN e
  ELSE LET e1 == [e EXCEPT !.sessions[key] = ClearSessionTimers(@)]
       IN IF e1.sessions[key].events = << >> THEN e1
          ELSE IF ~force /\ Len(e1.sessions[key].events) < 2
               THEN [e1 EXCEPT !.sessions[key].idleTimer = "force"]
               ELSE EnqueueFlush(e1, key)

\* requestFlush that gives up while a generation is running
RequestFlushUnlessGenerating(e, key, force) ==
  IF key \notin DOMAIN e.sessions THEN e
  ELSE LET e1 == [e EXCEPT !.sessions[key] = ClearSessionTimers(@)]
       IN IF e1.sessions[key].events = << >> \/ e1.generating THEN e1
          ELSE IF ~force /\ Len(e1.sessions[key].events) < MIN_BATCH_SIZE
               THEN [e1 EXCEPT !.sessions[key].idleTimer = "force"]
               ELSE EnqueueFlush(e1, key)

RequestFlush(e, key, force) ==
  IF key \notin DOMAIN e.sessions THEN e
  ELSE LET e1 == [e EXCEPT !.sessions[key] = ClearSessionTimers(@)]
       IN IF e1.sessions[key].events = << >> THEN e1
          ELSE IF ~force /\ Len(e1.sessions[key].events) < MIN_BATCH_SIZE
               THEN [e1 EXCEPT !.sessions[key].idleTimer = "force"]
               ELSE EnqueueFlush(e1, key)

\* addEvent with a hard cap of five events
AcceptEventCapFive(e, key, ev) ==
  LET e1 == EnsureSessionState(e, key)
      e2 == [e1 EXCEPT !.sessions[key].events = Append(@, ev)]
  IN IF Len(e2.sessions[key].events) >= 5
     THEN RequestFlush(e2, key, TRUE)
     ELSE [e2 EXCEPT !.sessions[key].idleTimer = "idle",
                     !.sessions[key].maxTimer = TRUE]

\* addEvent after the paused and event-type checks.
AcceptEvent(e, key, ev) ==
  LET e1 == EnsureSessionState(e, key)
      e2 == [e1 EXCEPT !.sessions[key].events = Append(@, ev)]
  IN IF Len(e2.sessions[key].events) >= MAX_BATCH_SIZE
     THEN RequestFlush(e2, key, TRUE)
     ELSE [e2 EXCEPT !.sessions[key].idleTimer = "idle",
                     !.sessions[key].maxTimer = TRUE]

\* A history that keeps its oldest entries once it is full
PushRecentKeepsOldest(hist, c) ==
  IF Len(hist) >= RECENT_COMMENTARY_LIMIT THEN hist ELSE Append(hist, c)

PushRecent(hist, c) ==
  LET h == Append(hist, c)
  IN IF Len(h) > RECENT_COMMENTARY_LIMIT THEN Tail(h) ELSE h

\* generateCommentary without the emit of the catch block
GenerationEventsSilent(key, ok) ==
  <<[event |-> "commentary-chunk", key |-> key], [event |-> "commentary-done", key |-> key]>>

\* What generateCommentary emits when provider.generate settles
GenerationEvents(key, ok) ==
  IF ok
  THEN <<[event |-> "commentary-chunk", key |-> key], [event |-> "commentary-done", key |-> key]>>
  ELSE <<[event |-> "commentary-chunk", key |-> key], [event |-> "commentary-done", key |-> key],
         [event |-> "error", key |-> key]>>

\* A continuation that deletes the state of a session with nothing pending
AfterGenerationDropsIdleState(e, g, ok) ==
  LET key == g.key
      e1 == [e EXCEPT !.inflight = @ \ {g},
                      !.generating = FALSE,
                      !.out = @ \o GenerationEvents(key, ok)]
      st == e1.sessions[key]
      e2 == IF st.events = << >>
            THEN [e1 EXCEPT !.sessions = [k \in DOMAIN e1.sessions \ {key} |-> e1.sessions[k]]]
            ELSE EnqueueFlush(e1, key)
  IN FlushLoop(e2)

\* A continuation that leaves the events that arrived meanwhile to the timers
AfterGenerationLeavesToTimers(e, g, ok) ==
  LET key == g.key
      e1 == [e EXCEPT !.inflight = @ \ {g},
                      !.generating = FALSE,
                      !.out = @ \o GenerationEvents(key, ok),
                      !.sessions[key].recentCommentary =
                          IF ok THEN PushRecent(@, g.batch[Len(g.batch)]) ELSE @]
  IN FlushLoop(e1)

\* The continuation of processFlushQueue after `await generateCommentary`
\* for the pending call g: the finally block, the re-queue of the session
\* and the next iterations of the while loop.
AfterGeneration(e, g, ok) ==
  LET key == g.key
      e1 == [e EXCEPT !.inflight = @ \ {g},
                      !.generating = FALSE,
                      !.out = @ \o GenerationEvents(key, ok),
                      !.sessions[key].recentCommentary =
                          IF ok THEN PushRecent(@, g.batch[Len(g.batch)]) ELSE @]
      st == e1.sessions[key]
      e2 == IF st.events = << >> THEN e1
            ELSE IF Len(st.events) >= MIN_BATCH_SIZE THEN EnqueueFlush(e1, key)
            ELSE IF st.idleTimer = "none"
                 THEN [e1 EXCEPT !.sessions[key].idleTimer = "force"]
                 ELSE e1
  IN FlushLoop(e2)

SetEngine(e) ==
  /\ sessions' = e.sessions
  /\ flushQueue' = e.flushQueue
  /\ queuedSessions' = e.queuedSessions
  /\ generating' = e.generating
  /\ inflight' = e.inflight
  /\ requests' = e.requests
  /\ engineEmitted' = e.out

AddEvent(key, type) ==
  IF paused \/ type \in {"tool_result", "meta"}
  THEN UNCHANGED vars
  ELSE /\ accepted[key] < MaxAccept
       /\ accepted' = [accepted EXCEPT ![key] = @ + 1]
       /\ SetEngine(AcceptEvent(Engine, key, <<key, accepted[key] + 1>>))
       /\ estep' = <<"addEvent", key>>
       /\ UNCHANGED <<paused, timingVars, generation, fsVars, watcherVars, auxVars, dispatchVars>>

IdleTimerFires(key) ==
  /\ key \in DOMAIN sessions
  /\ sessions[key].idleTimer # "none"
  /\ SetEngine(RequestFlush(Engine, key, sessions[key].idleTimer = "force"))
  /\ estep' = <<"idleTimer", key>>
  /\ UNCHANGED <<paused, accepted, timingVars, generation, fsVars, watcherVars, auxVars, dispatchVars>>

MaxTimerFires(key) ==
  /\ key \in DOMAIN sessions
  /\ sessions[key].maxTimer
  /\ SetEngine(RequestFlush(Engine, key, TRUE))
  /\ estep' = <<"maxTimer", key>>
  /\ UNCHANGED <<paused, accepted, timingVars, generation, fsVars, watcherVars, auxVars, dispatchVars>>

GenerationCompletes(g, ok) ==
  /\ g \in inflight
  /\ SetEngine(AfterGeneration(Engine, g, ok))
  /\ estep' = <<IF ok THEN "generated" ELSE "generationFailed", g.key>>
  /\ UNCHANGED <<paused, accepted, timingVars, generation, fsVars, watcherVars, auxVars, dispatchVars>>

(* A burst of events of one session, with the clock the timers run on *)

BurstKey == 1
BurstSize == BurstToolCalls + BurstMessages

BurstCount(type) == Cardinality({n \in 1..Len(burst.types) : burst.types[n] = type})

\* setTimeout: the callback runs no earlier than its delay after the call
TimersAfter(e, key) ==
  LET st == e.sessions[key]
      hadIdle == IF key \in DOMAIN sessions THEN sessions[key].idleTimer ELSE "none"
      hadMax == key \in DOMAIN sessions /\ sessions[key].maxTimer
  IN [timerDue EXCEPT ![key] =
        [idle |-> IF st.idleTimer = "idle" /\ estep' = <<"addEvent", key>> THEN now + IDLE_TIMEOUT_MS
                  ELSE IF st.idleTimer = "force" /\ hadIdle # "force" THEN now + IDLE_TIMEOUT_MS
                  ELSE @.idle,
         max |-> IF st.maxTimer /\ ~hadMax THEN now + MAX_WAIT_MS ELSE @.max]]

\* addEvent for the next event of the burst, which arrives less than the
\* idle timeout after the first one
BurstArrives(type) ==
  /\ ~paused
  /\ burst.types # << >> => now - burst.first < IDLE_TIMEOUT_MS
  /\ BurstCount(type) < (IF type = "tool_call" THEN BurstToolCalls ELSE BurstMessages)
  /\ LET e == AcceptEvent(Engine, BurstKey, <<BurstKey, Len(burst.types) + 1, type>>)
     IN /\ SetEngine(e)
        /\ estep' = <<"addEvent", BurstKey>>
        /\ timerDue' = TimersAfter(e, BurstKey)
  /\ accepted' = [accepted EXCEPT ![BurstKey] = @ + 1]
  /\ burst' = [types |-> Append(burst.types, type),
               first |-> IF burst.types = << >> THEN now ELSE burst.first,
               last |-> now]
  /\ UNCHANGED <<paused, generation, fsVars, watcherVars, auxVars, dispatchVars>>

BurstIdleTimerFires ==
  /\ BurstKey \in DOMAIN sessions
  /\ sessions[BurstKey].idleTimer # "none"
  /\ now >= timerDue[BurstKey].idle
  /\ LET e == RequestFlush(Engine, BurstKey, sessions[BurstKey].idleTimer = "force")
     IN /\ SetEngine(e)
        /\ estep' = <<"idleTimer", BurstKey>>
        /\ timerDue' = TimersAfter(e, BurstKey)
  /\ UNCHANGED <<paused, accepted, burst, generation, fsVars, watcherVars, auxVars, dispatchVars>>

BurstMaxTimerFires ==
  /\ BurstKey \in DOMAIN sessions
  /\ sessions[BurstKey].maxTimer
  /\ now >= timerDue[BurstKey].max
  /\ LET e == RequestFlush(Engine, BurstKey, TRUE)
     IN /\ SetEngine(e)
        /\ estep' = <<"maxTimer", BurstKey>>
        /\ timerDue' = TimersAfter(e, BurstKey)
  /\ UNCHANGED <<paused, accepted, burst, generation, fsVars, watcherVars, auxVars, dispatchVars>>

BurstGenerationCompletes(g, ok) ==
  /\ g \in inflight
  /\ LET e == AfterGeneration(Engine, g, ok)
     IN /\ SetEngine(e)
        /\ estep' = <<IF ok THEN "generated" ELSE "generationFailed", g.key>>
        /\ timerDue' = TimersAfter(e, g.key)
  /\ UNCHANGED <<paused, accepted, burst, generation, fsVars, watcherVars, auxVars, dispatchVars>>

BurstClock ==
  /\ now < MaxBurstMs
  /\ now' = now + BurstTickMs
  /\ UNCHANGED <<files, engineVars, watcherVars, auxVars, dispatchVars>>

Pause ==
  /\ paused' = TRUE
  /\ engineEmitted' = << >>
  /\ estep' = <<"pause", 0>>
  /\ UNCHANGED <<sessions, flushQueue, queuedSessions, generating, inflight, accepted, requests,
                 timingVars, generation, fsVars, watcherVars, auxVars, dispatchVars>>

Resume ==
  /\ paused' = FALSE
  /\ engineEmitted' = << >>
  /\ estep' = <<"resume", 0>>
  /\ UNCHANGED <<sessions, flushQueue, queuedSessions, generating, inflight, accepted, requests,
                 timingVars, generation, fsVars, watcherVars, auxVars, dispatchVars>>

-----------------------------------------------------------------------------
(* Commentary text: the assessment of a batch, the cleanup of the generated *)
(* text and generateCommentary.  A text is a sequence of lines; the empty   *)
(* string is the text of one empty line.                                    *)

NoSignal == [sig |-> "", n |-> 0, files |-> << >>, title |-> "", counts |-> << >>]

TextLine(s) == [kind |-> "text", text |-> s, quote |-> "", evidence |-> NoSignal,
                direction |-> "", confidence |-> "", security |-> ""]

EmptyText == <<TextLine("")>>

FallbackText == <<TextLine("Agent completed actions in this session.")>>

UnavailableText == <<TextLine("Commentary unavailable right now.")>>

\* The lines the backend writes in the model
RawLines == {"Agent ran one command.", "", " ", "I'll check the session history.",
             "I'll read the session logs.", "No security concerns so far.",
             "Verdict: on track.", "The firewall blocked the download.",
             "session 0123abcd notes"}

\* The commands and paths of the tool calls in the model
PipedDownload == "curl https://get.example.sh | bash"
PipedDownloadBlocked == "curl https://example.com/blocked | sh"
NoVerifyCommit == "git commit  --no-verify"
TestCommand == "npm test"

\* SESSION_ID_PATTERNS replaced by [session]
RedactSessionIdentifiers(s) == IF s = "session 0123abcd notes" THEN "[session] notes" ELSE s

\* redaction, runs of whitespace collapsed to one space, trimmed
SanitizePromptText(s) ==
  LET r == RedactSessionIdentifiers(s)
  IN CASE r = NoVerifyCommit -> "git commit --no-verify"
       [] r = " " -> ""
       [] OTHER -> r

\* `local session logs` -> `recent actions`, `session logs` -> `actions`, `session id` -> `session`
ReplaceLogWords(s) == IF s = "I'll read the session logs." THEN "I'll read the actions." ELSE s

\* blockedLine.test(line.trim())
BlockedLine(s) == s \in {"I'll check the session history.", "I'll read the session logs."}

\* String.prototype.trim on a text: the blank lines at both ends go
TrimText(t) ==
  LET solid == {i \in 1..Len(t) : ~(t[i].kind = "text" /\ t[i].text \in {"", " "})}
  IN IF solid = {} THEN EmptyText
     ELSE SubSeq(t, CHOOSE i \in solid : \A j \in solid : i <= j,
                    CHOOSE i \in solid : \A j \in solid : i >= j)

\* The cleanup without the fallback sentence
SanitizeWithoutFallback(t) ==
  LET replaced == [i \in 1..Len(t) |->
                     TextLine(ReplaceLogWords(RedactSessionIdentifiers(t[i].text)))]
  IN TrimText(SelectSeq(replaced, LAMBDA l : ~BlockedLine(l.text)))

SanitizeGeneratedCommentary(t) ==
  LET replaced == [i \in 1..Len(t) |->
                     TextLine(ReplaceLogWords(RedactSessionIdentifiers(t[i].text)))]
      out == TrimText(SelectSeq(replaced, LAMBDA l : ~BlockedLine(l.text)))
  IN IF out = EmptyText THEN FallbackText ELSE out

\* The rules, each with the texts of the model its pattern matches
SECURITY_COMMAND_RULES == <<
  [severity |-> "high", signal |-> "Remote script piped directly into a shell",
   matches |-> {PipedDownload, PipedDownloadBlocked}],
  [severity |-> "high", signal |-> "TLS verification explicitly disabled", matches |-> {}],
  [severity |-> "high", signal |-> "Destructive root-level delete command", matches |-> {}],
  [severity |-> "medium", signal |-> "Insecure transport flag used in command", matches |-> {}],
  [severity |-> "medium", signal |-> "Git hooks bypassed with --no-verify",
   matches |-> {NoVerifyCommit}],
  [severity |-> "medium", signal |-> "SSH host key verification disabled", matches |-> {}],
  [severity |-> "medium", signal |-> "Overly broad file permissions (chmod 777)", matches |-> {}],
  [severity |-> "medium", signal |-> "Potential secret exposed in command arguments",
   matches |-> {}] >>

SECURITY_PATH_RULES == <<
  [severity |-> "medium", signal |-> "Secret-related file touched", matches |-> {".env"}],
  [severity |-> "medium", signal |-> "Sensitive key/cert file touched", matches |-> {}] >>

TEST_COMMAND_PATTERNS == {TestCommand}
DEPLOY_COMMAND_PATTERNS == {}
ERROR_SIGNAL_PATTERN == {"Build failed with an error"}

\* The events of the model
ToolCall(tool, command, path, summary) ==
  [type |-> "tool_call", tool |-> tool, command |-> command, path |-> path, summary |-> summary]

Message(summary) ==
  [type |-> "message", tool |-> "", command |-> "", path |-> "", summary |-> summary]

BatchEvents == {ToolCall("bash", PipedDownload, "", "Running: curl https://get.example.sh | bash"),
                ToolCall("bash", PipedDownloadBlocked, "", "Running: curl https://example.com/blocked | sh"),
                ToolCall("bash", NoVerifyCommit, "", "Running: git commit --no-verify"),
                ToolCall("bash", TestCommand, "", "Running: npm test"),
                ToolCall("edit", "", "src/app.ts", "Editing src/app.ts"),
                ToolCall("read", "", ".env", "Reading .env"),
                Message("Build failed with an error"),
                Message("Thinking about the fix")}

ExtractCommand(ev) == IF ev.type # "tool_call" THEN "" ELSE ev.command

ExtractTouchedPath(ev) == IF ev.type # "tool_call" THEN "" ELSE ev.path

SummaryStartsWith(ev, word) ==
  <<ev.summary, word>> \in {<<"Reading .env", "reading ">>, <<"Editing src/app.ts", "editing ">>}

ToolIncludes(ev, word) == <<ev.tool, word>> \in {<<"read", "read">>, <<"edit", "edit">>}

RECURSIVE DetectSecurityFindings(_, _, _, _)
DetectSecurityFindings(findings, sourceText, rules, i) ==
  IF SanitizePromptText(sourceText) = "" \/ i > Len(rules) THEN findings
  ELSE LET f == [severity |-> rules[i].severity, signal |-> rules[i].signal,
                 evidence |-> SanitizePromptText(sourceText)]
           known == \E n \in 1..Len(findings) : findings[n] = f
       IN DetectSecurityFindings(
            IF sourceText \in rules[i].matches /\ ~known THEN Append(findings, f) ELSE findings,
            sourceText, rules, i + 1)

\* securityFindings after the first n events of the batch
RECURSIVE FindingsAfter(_, _)
FindingsAfter(events, n) ==
  IF n = 0 THEN << >>
  ELSE LET ev == events[n]
           byCommand == IF ExtractCommand(ev) # ""
                        THEN DetectSecurityFindings(FindingsAfter(events, n - 1),
                                                    ExtractCommand(ev), SECURITY_COMMAND_RULES, 1)
                        ELSE FindingsAfter(events, n - 1)
       IN IF ExtractTouchedPath(ev) # ""
          THEN DetectSecurityFindings(byCommand, ExtractTouchedPath(ev), SECURITY_PATH_RULES, 1)
          ELSE byCommand

\* touchedFiles after the first n events: pushUnique with at most 3 items
RECURSIVE TouchedAfter(_, _)
TouchedAfter(events, n) ==
  IF n = 0 THEN << >>
  ELSE LET prev == TouchedAfter(events, n - 1)
           p == SanitizePromptText(ExtractTouchedPath(events[n]))
       IN IF p = "" \/ (\E i \in 1..Len(prev) : prev[i] = p) \/ Len(prev) >= 3
          THEN prev ELSE Append(prev, p)

BuildCommentaryAssessment(events, sessionTitle) ==
  LET IsRead(ev) ==
        ev.type = "tool_call" /\ (SummaryStartsWith(ev, "reading ") \/ ToolIncludes(ev, "read"))
      IsWrite(ev) ==
        /\ ev.type = "tool_call"
        /\ \/ SummaryStartsWith(ev, "writing ") \/ SummaryStartsWith(ev, "editing ")
           \/ ToolIncludes(ev, "write") \/ ToolIncludes(ev, "edit")
           \/ ToolIncludes(ev, "apply_diff")
      IsSearch(ev) ==
        /\ ev.type = "tool_call"
        /\ \/ SummaryStartsWith(ev, "searching ") \/ SummaryStartsWith(ev, "finding files")
           \/ ToolIncludes(ev, "grep") \/ ToolIncludes(ev, "glob")
      IsCommand(ev) == ExtractCommand(ev) # ""
      IsTest(ev) == IsCommand(ev) /\ ExtractCommand(ev) \in TEST_COMMAND_PATTERNS
      IsDeploy(ev) == IsCommand(ev) /\ ExtractCommand(ev) \in DEPLOY_COMMAND_PATTERNS
      IsError(ev) ==
        ev.type \in {"message", "tool_result"} /\ ev.summary \in ERROR_SIGNAL_PATTERN
      Signal(sig, n) == [NoSignal EXCEPT !.sig = sig, !.n = n]
      \* pushUnique for the signals, which differ from each other: at most maxItems
      PushSignal(list, cond, sg, maxItems) ==
        IF cond /\ Len(list) < maxItems THEN Append(list, sg) ELSE list
      reads == Cardinality({i \in 1..Len(events) : IsRead(events[i])})
      writes == Cardinality({i \in 1..Len(events) : IsWrite(events[i])})
      searches == Cardinality({i \in 1..Len(events) : IsSearch(events[i])})
      commands == Cardinality({i \in 1..Len(events) : IsCommand(events[i])})
      tests == Cardinality({i \in 1..Len(events) : IsTest(events[i])})
      deploys == Cardinality({i \in 1..Len(events) : IsDeploy(events[i])})
      errors == Cardinality({i \in 1..Len(events) : IsError(events[i])})
      touchedFiles == TouchedAfter(events, Len(events))
      securityFindings == FindingsAfter(events, Len(events))
      p1 == PushSignal(<< >>, writes > 0, Signal("writes", writes), 4)
      p2 == PushSignal(p1, tests > 0, Signal("tests", tests), 4)
      p3 == PushSignal(p2, deploys > 0, Signal("deploys", deploys), 4)
      progress == PushSignal(p3, touchedFiles # << >>,
                             [NoSignal EXCEPT !.sig = "touched", !.files = touchedFiles], 4)
      d1 == PushSignal(<< >>, reads >= 4 /\ writes = 0, Signal("reads-no-edits", reads), 4)
      d2 == PushSignal(d1, commands >= 6 /\ writes = 0 /\ tests = 0,
                       Signal("commands-no-progress", commands), 4)
      d3 == PushSignal(d2, errors >= 2, Signal("errors", errors), 4)
      d4 == PushSignal(d3, deploys > 0 /\ tests = 0, Signal("deploy-without-tests", 0), 4)
      drift == PushSignal(d4, progress = << >> /\ Len(events) >= 3, Signal("no-progress", 0), 4)
      evidenceScore == writes + tests + deploys + (IF errors > 0 THEN 1 ELSE 0)
  IN [direction |-> IF errors >= 3 /\ writes = 0 /\ tests = 0 THEN "blocked"
                    ELSE IF drift # << >> /\ writes = 0 /\ tests = 0 THEN "drifting"
                    ELSE IF progress = << >> THEN "drifting"
                    ELSE "on-track",
      confidence |-> IF Len(events) >= 8 \/ evidenceScore >= 3 THEN "high"
                     ELSE IF Len(events) >= 4 \/ evidenceScore >= 1 THEN "medium"
                     ELSE "low",
      security |-> IF \E n \in 1..Len(securityFindings) : securityFindings[n].severity = "high"
                   THEN "alert"
                   ELSE IF securityFindings # << >> THEN "watch" ELSE "clean",
      activitySummary |-> [NoSignal EXCEPT !.sig = "activity",
                             !.counts = <<reads, writes, searches, commands, tests, errors>>],
      progressSignals |-> PushSignal(progress, SanitizePromptText(sessionTitle) # "",
                                     [NoSignal EXCEPT !.sig = "title",
                                                      !.title = SanitizePromptText(sessionTitle)], 5),
      driftSignals |-> drift,
      securityFindings |-> SubSeq(securityFindings, 1,
                                  IF Len(securityFindings) < 3 THEN Len(securityFindings) ELSE 3)]

SummarizeClosingEvidence(a) ==
  IF a.progressSignals # << >> THEN a.progressSignals[1]
  ELSE IF a.driftSignals # << >> THEN a.driftSignals[1]
  ELSE a.activitySummary

\* `<evidence> — looks <direction> with <confidence> confidence.` and, unless
\* security is clean, ` Security is <security>.`
CreateClosingLine(a) ==
  [kind |-> "closing", text |-> "", quote |-> "", evidence |-> SummarizeClosingEvidence(a),
   direction |-> a.direction, confidence |-> a.confidence, security |-> a.security]

\* `SECURITY ALERT: <signal> (<evidence>)` or `SECURITY WATCH: ...`
SecurityCalloutLine(a) ==
  [kind |-> "callout",
   text |-> IF a.securityFindings # << >> THEN a.securityFindings[1].signal
            ELSE "Risky behavior detected in this batch.",
   quote |-> IF a.securityFindings # << >> THEN a.securityFindings[1].evidence ELSE "",
   evidence |-> NoSignal, direction |-> "", confidence |-> "", security |-> a.security]

\* /\bsecurity\b|\bsecurity alert\b|\bsecurity watch\b/i on a line
HasSecurityWord(l) ==
  CASE l.kind = "text" -> l.text = "No security concerns so far."
    [] l.kind = "callout" -> TRUE
    [] l.kind = "closing" -> l.security # "clean"

\* /\bverdict\b|\bon.?track\b|\bdrifting\b|\bblocked\b|\bmomentum\b/i on a line
HasVerdictWord(l) ==
  CASE l.kind = "text" -> l.text \in {"Verdict: on track.", "The firewall blocked the download."}
    [] l.kind = "callout" -> l.quote = PipedDownloadBlocked
    [] l.kind = "closing" -> TRUE

ApplyAssessmentSignals(commentary, a) ==
  LET trimmed == TrimText(commentary)
      out == IF trimmed = EmptyText THEN FallbackText ELSE trimmed
      hasSecuritySignal == \E i \in 1..Len(out) : HasSecurityWord(out[i])
      called == IF ~hasSecuritySignal /\ a.security # "clean"
                THEN <<SecurityCalloutLine(a)>> \o out ELSE out
      hasClosingLine == \E i \in 1..Len(called) : HasVerdictWord(called[i])
  IN IF ~hasClosingLine THEN Append(called, CreateClosingLine(a)) ELSE called

\* The inputs of one call of generateCommentary
Batches == UNION {[1..n -> BatchEvents] : n \in 1..MaxBatchEvents}
RawTexts == UNION {[1..n -> {TextLine(s) : s \in RawLines}] : n \in 1..MaxTextLines}

NoGeneration == [batch |-> << >>, title |-> "", full |-> EmptyText, streamed |-> EmptyText,
                 phase |-> "idle", sanitized |-> EmptyText, emitted |-> << >>]

\* full || streamedRaw
RawOutput == IF generation.full = EmptyText THEN generation.streamed ELSE generation.full

\* generateCommentary up to `await provider.generate`
GenerateCommentaryStarts ==
  /\ generation.phase = "ready"
  /\ generation' = [generation EXCEPT
                      !.phase = "generating",
                      !.emitted = <<[event |-> "commentary-start", commentary |-> EmptyText]>>]
  /\ UNCHANGED <<batchingVars, fsVars, watcherVars, auxVars, dispatchVars>>

\* provider.generate resolves (ok) or rejects
ProviderSettles(ok) ==
  /\ generation.phase = "generating"
  /\ LET assessment == BuildCommentaryAssessment(generation.batch, generation.title)
         sanitized == SanitizeGeneratedCommentary(RawOutput)
         commentary == IF ok THEN ApplyAssessmentSignals(sanitized, assessment)
                       ELSE UnavailableText
     IN generation' = [generation EXCEPT
          !.phase = IF ok THEN "done" ELSE "failed",
          !.sanitized = IF ok THEN sanitized ELSE @,
          !.emitted = @
            \o (IF ok /\ commentary = EmptyText THEN << >>
                ELSE <<[event |-> "commentary-chunk", commentary |-> commentary]>>)
            \o <<[event |-> "commentary-done", commentary |-> commentary]>>
            \o (IF ok THEN << >> ELSE <<[event |-> "error", commentary |-> commentary]>>)]
  /\ UNCHANGED <<batchingVars, fsVars, watcherVars, auxVars, dispatchVars>>

-----------------------------------------------------------------------------
(* Strings: the session identifiers of the model and the conversions the   *)
(* code applies to them                                                     *)

\* String.prototype.trim on the strings of the model
Trim(s) == CASE s = " S1 " -> "S1"
             [] s = " " -> ""
             [] s = " Fix Tests " -> "Fix Tests"
             [] OTHER -> s

\* String.prototype.toLowerCase on the strings of the model
Lower(s) == CASE s = "S1" -> "s1"
              [] s = " S1 " -> " s1 "
              [] s = "Fix Tests" -> "fix tests"
              [] s = "FIX TESTS" -> "fix tests"
              [] s = " Fix Tests " -> " fix tests "
              [] OTHER -> s

\* String.prototype.length; "x200" is a line of 200 characters and "x160"
\* its first 160 characters
Length(s) == CASE s = "" -> 0
               [] s = " " -> 1
               [] s = "hi" -> 2
               [] s = "more" -> 4
               [] s \in {"fix tests", "Fix Tests", "FIX TESTS"} -> 9
               [] s = " Fix Tests " -> 11
               [] s = "x160" -> 160
               [] s = "x200" -> 200
               [] OTHER -> 2

\* String.prototype.slice(0, n)
Slice(s, n) == IF Length(s) <= n THEN s
               ELSE IF s = "x200" /\ n = 160 THEN "x160"
               ELSE s

\* String.prototype.includes
Includes(hay, needle) ==
  \/ needle = ""
  \/ hay = needle
  \/ hay = "x200" /\ needle = "x160"

NormalizeSessionId(raw, agent) ==
  LET value == Trim(raw)
  IN IF value = "" THEN ""
     ELSE IF agent = "codex" THEN Lower(value) ELSE value

-----------------------------------------------------------------------------
(* Log files *)

Paths == {"c1", "c2", "x1"}

\* Directory order of a scan: ~/.claude/projects first, then ~/.codex/sessions
ScanOrder == <<"c1", "c2", "x1">>

AgentOf(f) == IF f = "x1" THEN "codex" ELSE "claude"

\* watcher.ts deriveSessionId: the basename, for codex its uuid in lower case
DeriveSessionId(f) == IF f = "x1" THEN "u1" ELSE f

\* parsers: sessionIdFromFilePath
SessionIdFromFilePath(f) == IF f = "x1" THEN "u1" ELSE f

\* A log line, by what the decoders and probes make of it:
\*   event   an assistant tool call or message: one Activity Event
\*   result  (claude) a user line holding only tool results: one tool_result event
\*   user    a user line with text that is not a generated commentary prompt
\*   kibitz  a user line whose text is a generated commentary prompt
\*   skip    a malformed or uninteresting line
\* sid is the line's own sessionId field ("" when it has none), echo the
\* dispatched instruction text the line contains ("none" when it has none).
JunkLine == [kind |-> "skip", sid |-> "", echo |-> "none", bytes |-> SmallLineBytes]

\* The lines the agents append to each file while the watcher runs
WatcherLines(f) ==
  IF f = "c1"
  THEN {[kind |-> "event", sid |-> s, echo |-> "none", bytes |-> SmallLineBytes] : s \in {"", "s1"}}
       \cup {[kind |-> "kibitz", sid |-> "", echo |-> "none", bytes |-> SmallLineBytes]}
  ELSE IF f = "c2"
  THEN {[kind |-> "event", sid |-> "S1", echo |-> "none", bytes |-> SmallLineBytes]}
  ELSE {[kind |-> k, sid |-> "", echo |-> "none", bytes |-> SmallLineBytes] :
               k \in {"event", "kibitz"}}

RECURSIVE SumBytes(_)
SumBytes(ls) == IF ls = << >> THEN 0 ELSE Head(ls).bytes + SumBytes(Tail(ls))

Size(f) == files[f].prefixLines * SmallLineBytes + SumBytes(files[f].lines)

NumLines(f) == files[f].prefixLines + Len(files[f].lines)

\* The i-th line of the file, 1-based
LineAt(f, i) == IF i <= files[f].prefixLines THEN JunkLine
                ELSE files[f].lines[i - files[f].prefixLines]

\* Byte offset at which the i-th appended line starts
LineStart(f, i) == files[f].prefixLines * SmallLineBytes + SumBytes(SubSeq(files[f].lines, 1, i - 1))

\* The appended lines that start at or after a byte offset
LinesFrom(f, offset) ==
  LET idx == {i \in 1..Len(files[f].lines) : LineStart(f, i) >= offset}
  IN IF idx = {} THEN << >>
     ELSE SubSeq(files[f].lines, CHOOSE i \in idx : \A j \in idx : i <= j, Len(files[f].lines))

TotalAppended == LET RECURSIVE Tot(_)
                     Tot(S) == IF S = {} THEN 0
                               ELSE LET f == CHOOSE x \in S : TRUE
                                    IN Len(files[f].lines) + Tot(S \ {f})
                 IN Tot(Paths)

Stale(f) == now - files[f].mtime > ACTIVE_SESSION_WINDOW_MS

AppendLine(f, line, max) ==
  /\ files[f].exists
  /\ TotalAppended < max
  /\ files' = [files EXCEPT ![f].lines = Append(@, line), ![f].mtime = now]
  /\ UNCHANGED now

RemoveFile(f) ==
  /\ files[f].exists
  /\ Cardinality({g \in Paths : ~files[g].exists}) < MaxRemovals
  /\ files' = [files EXCEPT ![f].exists = FALSE]
  /\ UNCHANGED now

Tick ==
  /\ now < MaxTicks * TickMs
  /\ now' = now + TickMs
  /\ UNCHANGED files

InitFiles ==
  /\ \E n \in {0, LongPrefixLines} :
        files = [f \in Paths |-> [exists |-> TRUE,
                                  prefixLines |-> IF f = "x1" THEN n ELSE 0,
                                  lines |-> << >>, mtime |-> 0]]
  /\ now = 0

-----------------------------------------------------------------------------
(* SessionWatcher *)

Min(a, b) == IF a < b THEN a ELSE b

IsWatched(f) == \E i \in 1..Len(watched) : watched[i].filePath = f

RecordOf(f) == watched[CHOOSE i \in 1..Len(watched) : watched[i].filePath = f]

IsKibitzInternalCodexLine(line) == line.kind = "kibitz"

IsKibitzInternalCodexSession(f) ==
  /\ files[f].exists
  /\ \E i \in 1..Min(NumLines(f), CODEX_PROBE_LINES) : IsKibitzInternalCodexLine(LineAt(f, i))

\* The first user line among the first lines decides; a user line without
\* text ends the probe.
IsKibitzInternalClaudeSession(f) ==
  /\ files[f].exists
  /\ LET n == Min(NumLines(f), CLAUDE_PROBE_LINES)
         users == {i \in 1..n : LineAt(f, i).kind \in {"user", "kibitz", "result"}}
     IN /\ users # {}
        /\ LineAt(f, CHOOSE i \in users : \A j \in users : i <= j).kind = "kibitz"

\* The sessionId of the last line, among the last 512 KiB, that has one
ExtractSessionIdFromLog(f, agent, fallback) ==
  LET normalizedFallback == NormalizeSessionId(fallback, agent)
  IN IF agent # "claude" THEN normalizedFallback
     ELSE IF ~files[f].exists \/ Size(f) <= 0 THEN normalizedFallback
     ELSE LET from == Size(f) - Min(Size(f), SESSION_ID_PROBE_BYTES)
              ls == LinesFrom(f, from)
              idx == {i \in 1..Len(ls) : ls[i].kind # "skip" /\ NormalizeSessionId(ls[i].sid, agent) # ""}
          IN IF idx = {} THEN normalizedFallback
             ELSE NormalizeSessionId(ls[CHOOSE i \in idx : \A j \in idx : i >= j].sid, agent)

\* A watcher that registers a file with offset 0 and so reads its history
WatchFileFromStart(f) ==
  LET agent == AgentOf(f)
  IN [filePath |-> f,
      sessionId |-> ExtractSessionIdFromLog(f, agent, DeriveSessionId(f)),
      offset |-> 0,
      agent |-> agent,
      ignore |-> \/ (agent = "codex" /\ IsKibitzInternalCodexSession(f))
                 \/ (agent = "claude" /\ IsKibitzInternalClaudeSession(f))]

\* watchFile: the record of a newly seen file
WatchFile(f) ==
  LET agent == AgentOf(f)
  IN [filePath |-> f,
      sessionId |-> ExtractSessionIdFromLog(f, agent, DeriveSessionId(f)),
      offset |-> Size(f),
      agent |-> agent,
      ignore |-> \/ (agent = "codex" /\ IsKibitzInternalCodexSession(f))
                 \/ (agent = "claude" /\ IsKibitzInternalClaudeSession(f))]

\* parseClaudeLine / parseCodexLine: the events of one line, each with the
\* sessionId the parser gives it
ParseLine(agent, line, f) ==
  IF agent = "claude"
  THEN LET sessionId == IF line.sid # "" THEN line.sid ELSE SessionIdFromFilePath(f)
       IN IF line.kind = "event" THEN <<[sessionId |-> sessionId, type |-> "tool_call"]>>
          ELSE IF line.kind = "result" THEN <<[sessionId |-> sessionId, type |-> "tool_result"]>>
          ELSE << >>
  ELSE IF line.kind = "event"
       THEN <<[sessionId |-> SessionIdFromFilePath(f), type |-> "tool_call"]>>
       ELSE << >>

\* A watcher that freezes the identity of a record: events take the
\* record's sessionId and never change it
RECURSIVE EmitEventsFrozen(_, _, _)
EmitEventsFrozen(rec, parsed, out) ==
  IF parsed = << >> THEN [rec |-> rec, out |-> out]
  ELSE EmitEventsFrozen(rec, Tail(parsed),
                        Append(out, [sessionId |-> rec.sessionId, raw |-> Head(parsed).sessionId,
                                     type |-> Head(parsed).type, file |-> rec.filePath]))

\* readNewLines, lines 238-262: the events of one line against the record
RECURSIVE EmitEvents(_, _, _)
EmitEvents(rec, parsed, out) ==
  IF parsed = << >> THEN [rec |-> rec, out |-> out]
  ELSE LET event == Head(parsed)
           normalized == NormalizeSessionId(event.sessionId, rec.agent)
           rec1 == IF normalized # "" /\ normalized # rec.sessionId
                   THEN [rec EXCEPT !.sessionId = normalized] ELSE rec
       IN EmitEvents(rec1, Tail(parsed),
                     Append(out, [sessionId |-> rec1.sessionId, raw |-> event.sessionId,
                                  type |-> event.type, file |-> rec.filePath]))

\* readNewLines, lines 214-263: the loop over the new lines
RECURSIVE ReadLoop(_, _, _)
ReadLoop(rec, ls, out) ==
  IF ls = << >> THEN [rec |-> rec, out |-> out]
  ELSE IF rec.agent = "codex" /\ IsKibitzInternalCodexLine(Head(ls))
       THEN [rec |-> [rec EXCEPT !.ignore = TRUE], out |-> out]
       ELSE LET r == EmitEvents(rec, ParseLine(rec.agent, Head(ls), rec.filePath), out)
                \* ls is the rest of the file: its head is line number `line`
                line == NumLines(rec.filePath) - Len(ls) + 1
                marked == [i \in 1..Len(r.out) |->
                             IF i <= Len(out) THEN r.out[i]
                             ELSE [sessionId |-> r.out[i].sessionId, raw |-> r.out[i].raw,
                                   type |-> r.out[i].type, file |-> r.out[i].file,
                                   line |-> line]]
            IN ReadLoop(r.rec, Tail(ls), marked)

\* A watcher that moves the offset only when the new bytes gave an event
ReadNewLinesLazyOffset(rec) ==
  LET f == rec.filePath
      r == ReadLoop(rec, LinesFrom(f, rec.offset), << >>)
  IN IF rec.ignore \/ ~files[f].exists \/ Size(f) <= rec.offset
     THEN [rec |-> rec, out |-> << >>]
     ELSE [rec |-> IF r.out = << >> THEN r.rec ELSE [r.rec EXCEPT !.offset = Size(f)],
           out |-> r.out]

ReadNewLines(rec) ==
  LET f == rec.filePath
  IN IF rec.ignore
     THEN [rec |-> IF files[f].exists THEN [rec EXCEPT !.offset = Size(f)] ELSE rec, out |-> << >>]
     ELSE IF ~files[f].exists THEN [rec |-> rec, out |-> << >>]
     ELSE IF Size(f) <= rec.offset THEN [rec |-> rec, out |-> << >>]
     ELSE ReadLoop([rec EXCEPT !.offset = Size(f)], LinesFrom(f, rec.offset), << >>)

\* scanClaude and scanCodex without the `!this.watched.has(filePath)` test
RECURSIVE RegisterNewAgain(_, _)
RegisterNewAgain(w, order) ==
  IF order = << >> THEN w
  ELSE LET f == Head(order)
       IN RegisterNewAgain(IF files[f].exists /\ ~Stale(f) THEN Append(w, WatchFile(f)) ELSE w,
                           Tail(order))

RECURSIVE RegisterNew(_, _)
RegisterNew(w, order) ==
  IF order = << >> THEN w
  ELSE LET f == Head(order)
           seen == \E i \in 1..Len(w) : w[i].filePath = f
       IN RegisterNew(IF files[f].exists /\ ~Stale(f) /\ ~seen THEN Append(w, WatchFile(f)) ELSE w,
                      Tail(order))

PruneStale(w) == SelectSeq(w, LAMBDA r : files[r.filePath].exists /\ ~Stale(r.filePath))

IgnoredPaths(w) == {w[i].filePath : i \in {j \in 1..Len(w) : w[j].ignore}}

\* scan: scanClaude, scanCodex, pruneStale
Scan ==
  /\ watched' = PruneStale(RegisterNew(watched, ScanOrder))
  /\ everIgnored' = everIgnored \cup IgnoredPaths(watched')
  /\ registered' = [f \in Paths |->
                       IF ~IsWatched(f) /\ \E i \in 1..Len(watched') : watched'[i].filePath = f
                       THEN [times |-> registered[f].times + 1, lines |-> NumLines(f)]
                       ELSE registered[f]]
  /\ lastRead' = "none"
  /\ thrown' = FALSE
  /\ emitted' = << >>
  /\ UNCHANGED <<fsVars, engineVars, dispatchVars, auxVars>>

\* readNewLines gets as far as fs.openSync: the record is not ignored, the
\* file answered statSync and holds bytes beyond the offset
ReachesOpen(rec) ==
  /\ ~rec.ignore
  /\ files[rec.filePath].exists
  /\ Size(rec.filePath) > rec.offset

\* The fs.watch callback of a tracked file. vanishes: the file is removed
\* after statSync and before openSync, which then throws; nothing catches
\* the exception in readNewLines or in the callback.
ChangeNotification(f, vanishes) ==
  /\ IsWatched(f)
  /\ lastRead' = f
  /\ UNCHANGED <<now, engineVars, dispatchVars, auxVars>>
  /\ IF vanishes
     THEN /\ ReachesOpen(RecordOf(f))
          /\ Cardinality({g \in Paths : ~files[g].exists}) < MaxRemovals
          /\ files' = [files EXCEPT ![f].exists = FALSE]
          /\ thrown' = TRUE
          /\ emitted' = << >>
          /\ UNCHANGED <<watched, everIgnored, registered>>
     ELSE /\ LET r == ReadNewLines(RecordOf(f))
             IN /\ watched' = [i \in 1..Len(watched) |->
                                  IF watched[i].filePath = f THEN r.rec ELSE watched[i]]
                /\ emitted' = r.out
          /\ everIgnored' = everIgnored \cup IgnoredPaths(watched')
          /\ thrown' = FALSE
          /\ UNCHANGED <<files, registered>>

SessionKey(agent, id) == <<agent, Lower(id)>>

\* A view that keeps the first record of each session it meets
RECURSIVE SessionsByKeyFirstWins(_, _)
SessionsByKeyFirstWins(w, acc) ==
  IF w = << >> THEN acc
  ELSE LET r == Head(w)
           f == r.filePath
           session == [id |-> r.sessionId, agent |-> r.agent, filePath |-> f,
                       lastActivity |-> files[f].mtime]
       IN IF r.ignore \/ ~files[f].exists \/ Stale(f) THEN SessionsByKeyFirstWins(Tail(w), acc)
          ELSE IF \E i \in 1..Len(acc) :
                     SessionKey(acc[i].agent, acc[i].id) = SessionKey(session.agent, session.id)
               THEN SessionsByKeyFirstWins(Tail(w), acc)
               ELSE SessionsByKeyFirstWins(Tail(w), Append(acc, session))

\* getActiveSessions, lines 50-71: the Map sessionsByKey in insertion order
RECURSIVE SessionsByKey(_, _)
SessionsByKey(w, acc) ==
  IF w = << >> THEN acc
  ELSE LET r == Head(w)
           f == r.filePath
       IN IF r.ignore \/ ~files[f].exists \/ Stale(f) THEN SessionsByKey(Tail(w), acc)
          ELSE LET session == [id |-> r.sessionId, agent |-> r.agent, filePath |-> f,
                               lastActivity |-> files[f].mtime]
                   hit == {i \in 1..Len(acc) :
                             SessionKey(acc[i].agent, acc[i].id) = SessionKey(session.agent, session.id)}
               IN IF hit = {} THEN SessionsByKey(Tail(w), Append(acc, session))
                  ELSE LET i == CHOOSE x \in hit : TRUE
                       IN IF acc[i].lastActivity < session.lastActivity
                          THEN SessionsByKey(Tail(w), [acc EXCEPT ![i] = session])
                          ELSE SessionsByKey(Tail(w), acc)

\* Array.prototype.sort by lastActivity, latest first (stable)
RECURSIVE SortByActivity(_)
SortByActivity(s) ==
  IF s = << >> THEN << >>
  ELSE LET rest == SortByActivity(Tail(s))
           before == SelectSeq(rest, LAMBDA x : x.lastActivity > Head(s).lastActivity)
           after == SelectSeq(rest, LAMBDA x : x.lastActivity <= Head(s).lastActivity)
       IN before \o <<Head(s)>> \o after

GetActiveSessions == SortByActivity(SessionsByKey(watched, << >>))

InitWatcher ==
  /\ watched = << >>
  /\ lastRead = "none"
  /\ thrown = FALSE
  /\ emitted = << >>
  /\ everIgnored = {}
  /\ registered = [f \in Paths |-> [times |-> 0, lines |-> 0]]

-----------------------------------------------------------------------------
(* SessionDispatchService *)

NoRequest == [kind |-> "none", agent |-> "none", sessionId |-> "", prompt |-> << >>]

NoSnapshot == [exists |-> FALSE, size |-> 0, mtimeMs |-> 0]

NoMatch == [id |-> "", agent |-> "none", filePath |-> "none", lastActivity |-> 0]

\* Instructions, as their lines
Prompts == {<< >>, <<" ">>, <<"hi">>, <<"fix tests">>, <<" ", " Fix Tests ", "more">>, <<"x200">>}

Targets ==
  {[kind |-> "existing", agent |-> "claude", sessionId |-> i] : i \in {"", "s1", " S1 ", "s2"}}
  \cup {[kind |-> "existing", agent |-> "codex", sessionId |-> i] : i \in {"s1", "u1"}}
  \cup {[kind |-> "existing", agent |-> "other", sessionId |-> "s1"]}
  \cup {[kind |-> k, agent |-> "none", sessionId |-> ""] : k \in {"new-claude", "new-codex"}}

\* Log lines written while an instruction is being delivered: a user line
\* that starts with the text echo, or a line without instruction text
DispatchLines ==
  {[kind |-> "user", sid |-> "", echo |-> e, bytes |-> SmallLineBytes] :
       e \in {"fix tests", "FIX TESTS", "x160"}}
  \cup {[kind |-> "user", sid |-> "", echo |-> "fix tests", bytes |-> BigLineBytes],
        [kind |-> "skip", sid |-> "", echo |-> "none", bytes |-> SmallLineBytes]}

\* A validation that takes only the instruction without any text for empty
PromptIsEmptyUntrimmed(prompt) == prompt = << >>

\* String(request.prompt || '').trim() is empty
PromptIsEmpty(prompt) == \A i \in 1..Len(prompt) : Trim(prompt[i]) = ""

FirstPromptSignature(prompt) ==
  LET lines == SelectSeq([i \in 1..Len(prompt) |-> Trim(prompt[i])], LAMBDA l : l # "")
      first == IF lines # << >> THEN lines[1] ELSE ""
  IN Slice(first, SIGNATURE_MAX_LENGTH)

CaptureSessionFileSnapshot(f) ==
  IF files[f].exists THEN [exists |-> TRUE, size |-> Size(f), mtimeMs |-> files[f].mtime]
  ELSE NoSnapshot

\* A check that takes any change of the file for the delivery
HasSessionUpdateAnyChange(f, prompt, before) ==
  LET after == IF files[f].exists
               THEN [exists |-> TRUE, size |-> Size(f), mtimeMs |-> files[f].mtime]
               ELSE [exists |-> FALSE, size |-> 0, mtimeMs |-> 0]
  IN after.size > before.size \/ after.mtimeMs > before.mtimeMs

\* hasSessionFileChanged; the caller has dealt with the inaccessible file
HasSessionFileChanged(f, before) ==
  LET after == CaptureSessionFileSnapshot(f)
  IN after.size > before.size \/ after.mtimeMs > before.mtimeMs

Max(a, b) == IF a > b THEN a ELSE b

\* readSessionTailSinceOffset: the lines that start in the bytes read
ReadSessionTailSinceOffset(f, previousSize) ==
  IF ~files[f].exists THEN << >>
  ELSE LET start == Max(0, previousSize - TAIL_LOOKBACK_BYTES)
           desiredStart == IF Size(f) - start > TAIL_MAX_BYTES
                           THEN Max(0, Size(f) - TAIL_MAX_BYTES) ELSE start
       IN IF Max(0, Size(f) - desiredStart) = 0 THEN << >>
          ELSE LinesFrom(f, desiredStart)

\* tail.toLowerCase().includes(promptSignature.toLowerCase())
TailIncludes(tail, signature) ==
  \E i \in 1..Len(tail) :
     tail[i].echo # "none" /\ Includes(Lower(tail[i].echo), Lower(signature))

HasSessionUpdateWithPrompt(f, prompt, before) ==
  IF ~HasSessionFileChanged(f, before) THEN FALSE
  ELSE IF Length(FirstPromptSignature(prompt)) < MIN_SIGNATURE_LENGTH THEN TRUE
  ELSE LET tail == ReadSessionTailSinceOffset(f, before.size)
       IN IF tail = << >> THEN FALSE
          ELSE TailIncludes(tail, FirstPromptSignature(prompt))

\* verifyExistingDispatchDelivery: "ok", or the error it throws
VerifyExistingDispatchDelivery(f, prompt, before) ==
  IF ~files[f].exists THEN "inaccessible"
  ELSE IF ~HasSessionFileChanged(f, before) THEN "unchanged"
  ELSE IF Length(FirstPromptSignature(prompt)) < MIN_SIGNATURE_LENGTH THEN "ok"
  ELSE LET tail == ReadSessionTailSinceOffset(f, before.size)
       IN IF tail = << >> THEN "notfound"
          ELSE IF ~TailIncludes(tail, FirstPromptSignature(prompt)) THEN "notfound"
          ELSE "ok"

\* A lookup that falls back to the most recent session when the target is
\* not in the view
FindActiveMatchOrFirst(active, targetAgent, targetSessionId) ==
  LET hit == {i \in 1..Len(active) :
                active[i].agent = targetAgent /\ Lower(active[i].id) = targetSessionId}
  IN IF hit # {} THEN active[CHOOSE i \in hit : \A j \in hit : i <= j]
     ELSE IF active # << >> THEN active[1]
     ELSE [id |-> "", agent |-> "none", filePath |-> "none", lastActivity |-> 0]

\* dispatchExistingSession: active.find(...)
FindActiveMatch(active, targetAgent, targetSessionId) ==
  LET hit == {i \in 1..Len(active) :
                active[i].agent = targetAgent /\ Lower(active[i].id) = targetSessionId}
  IN IF hit = {} THEN NoMatch
     ELSE active[CHOOSE i \in hit : \A j \in hit : i <= j]

BuildExistingDispatchCommand(target, prompt) ==
  [mode |-> "resume", provider |-> target.agent, sessionId |-> Trim(target.sessionId),
   prompt |-> prompt]

BuildInteractiveDispatchCommand(provider, prompt, mode) ==
  [mode |-> mode, provider |-> provider, sessionId |-> "", prompt |-> prompt]

\* The template string `${provider}.cmd`
DotCmd(provider) == CASE provider = "claude" -> "claude.cmd"
                      [] provider = "codex" -> "codex.cmd"

\* A build that never takes the Windows wrapper
GetProviderCliCommandPosix(provider, platform) == provider

GetProviderCliCommand(provider, platform) ==
  IF platform = "win32" THEN DotCmd(provider) ELSE provider

\* buildExistingDispatchCommand in full: the DispatchCommand it returns, or
\* the Error it throws
ExistingDispatchCommand(target, prompt, platform) ==
  IF target.kind # "existing"
  THEN [thrown |-> TRUE, message |-> "Expected existing target"]
  ELSE LET sessionId == Trim(target.sessionId)
           agent == target.agent
       IN IF sessionId = "" \/ (agent # "claude" /\ agent # "codex")
          THEN [thrown |-> TRUE, message |-> "Missing existing-session target details"]
          ELSE IF agent = "codex"
          THEN [thrown |-> FALSE, provider |-> "codex",
                command |-> GetProviderCliCommand("codex", platform),
                args |-> <<"exec", "resume", "--json", "--skip-git-repo-check", sessionId, prompt>>]
          ELSE [thrown |-> FALSE, provider |-> "claude",
                command |-> GetProviderCliCommand("claude", platform),
                args |-> <<"-p", prompt, "--verbose", "--output-format", "stream-json",
                           "--resume", sessionId>>]

NoCommand == [called |-> FALSE]

\* The targets, instructions and platforms of the calls of the model. A
\* target has no sessionId ("" or blank) or no agent ("none") as callers
\* may leave them out.
CommandTargets ==
  [kind : {"existing", "new-claude", "new-codex"},
   sessionId : {"", " ", "S1", " S1 "},
   agent : {"claude", "codex", "none"}]

CommandPrompts == {"Fix Tests", "-p"}

Platforms == {"win32", "darwin", "linux"}

\* One call of buildExistingDispatchCommand
BuildCommand ==
  /\ built.called
  /\ ~built.returned
  /\ built' = [built EXCEPT !.returned = TRUE,
                            !.result = ExistingDispatchCommand(built.target, built.prompt,
                                                               built.platform)]
  /\ UNCHANGED <<engineVars, fsVars, watcherVars, dispatchVars, shared, tuning, titling, formats, assessed, arrivals, tailing>>

\* One iteration of the loop of waitForDispatchAcknowledgement, followed by
\* what dispatchExistingSession does with its result: the outcome of the
\* dispatch, or "sleep". completionState follows the process.
PollOutcome ==
  LET f == activeMatch.filePath
  IN IF child = "exitFail" THEN [state |-> "failed", by |-> "childfail"]
     ELSE IF ~files[f].exists THEN [state |-> "failed", by |-> "inaccessible"]
     ELSE IF HasSessionUpdateWithPrompt(f, request.prompt, beforeDispatch)
          THEN [state |-> "sent", by |-> "observed"]
     ELSE IF child = "exit0"
          THEN IF VerifyExistingDispatchDelivery(f, request.prompt, beforeDispatch) = "ok"
               THEN [state |-> "sent", by |-> "complete"]
               ELSE [state |-> "failed", by |-> "verify"]
     ELSE [state |-> "sleep", by |-> "none"]

\* The call ends with a terminal status
Finish(statuses, by) ==
  /\ trail' = trail \o statuses
  /\ dphase' = "done"
  /\ decidedBy' = by

\* dispatch(request), up to its first suspension
Dispatch(target, prompt, origin, hasLauncher, cliFound) ==
  /\ dphase = "idle"
  /\ request' = [kind |-> target.kind, agent |-> target.agent,
                 sessionId |-> target.sessionId, prompt |-> prompt]
  /\ viewAtCall' = GetActiveSessions
  /\ viewCalls' = IF /\ ~PromptIsEmpty(prompt)
                     /\ target.kind = "existing"
                     /\ Lower(Trim(target.sessionId)) # ""
                     /\ target.agent \in {"claude", "codex"}
                  THEN 1 ELSE 0
  /\ dstep' = "dispatch"
  /\ UNCHANGED <<polling, echoedBeforeExit, fsVars, engineVars, watcherVars, auxVars>>
  /\ IF PromptIsEmpty(prompt)
     THEN /\ Finish(<<"failed">>, "validation")
          /\ UNCHANGED <<launched, child, beforeDispatch, activeMatch>>
     ELSE IF target.kind = "existing"
     THEN LET targetSessionId == Lower(Trim(target.sessionId))
              match == FindActiveMatch(GetActiveSessions, target.agent, targetSessionId)
          IN IF targetSessionId = "" \/ target.agent \notin {"claude", "codex"}
             THEN /\ Finish(<<"queued", "failed">>, "target")
                  /\ UNCHANGED <<launched, child, beforeDispatch, activeMatch>>
             ELSE IF match = NoMatch
             THEN /\ Finish(<<"queued", "failed">>, "inactive")
                  /\ UNCHANGED <<launched, child, beforeDispatch, activeMatch>>
             ELSE /\ activeMatch' = match
                  /\ beforeDispatch' = CaptureSessionFileSnapshot(match.filePath)
                  /\ IF ~cliFound
                     THEN /\ Finish(<<"queued", "started", "failed">>, "launch")
                          /\ UNCHANGED <<launched, child>>
                     ELSE /\ trail' = trail \o <<"queued", "started">>
                          /\ launched' = Append(launched, BuildExistingDispatchCommand(target, prompt))
                          /\ child' = "starting"
                          /\ dphase' = "spawning"
                          /\ UNCHANGED decidedBy
     ELSE LET provider == IF target.kind = "new-codex" THEN "codex" ELSE "claude"
          IN /\ UNCHANGED <<beforeDispatch, activeMatch>>
             /\ IF (origin = "vscode" /\ ~hasLauncher) \/ (origin # "vscode" /\ ~cliFound)
                THEN /\ Finish(<<"queued", "started", "failed">>, "launch")
                     /\ UNCHANGED <<launched, child>>
                ELSE /\ trail' = trail \o <<"queued", "started">>
                     /\ child' = IF origin = "vscode" THEN child ELSE "foreground"
                     /\ launched' = Append(launched,
                            BuildInteractiveDispatchCommand(provider, prompt,
                                IF origin = "vscode" THEN "launcher" ELSE "terminal"))
                     /\ dphase' = "interactive"
                     /\ UNCHANGED decidedBy

\* The 'spawn' or 'error' event of the background process, and with 'spawn'
\* the first iteration of the acknowledgement loop
SpawnResult(ok) ==
  /\ dphase = "spawning"
  /\ dstep' = "spawn"
  /\ UNCHANGED <<request, launched, beforeDispatch, activeMatch, viewAtCall, viewCalls, echoedBeforeExit,
                 fsVars, engineVars, watcherVars, auxVars>>
  /\ IF ~ok
     THEN /\ Finish(<<"failed">>, "spawn")
          /\ child' = "none"
          /\ UNCHANGED polling
     ELSE /\ child' = "running"
          /\ IF PollOutcome.state # "sleep"
             THEN Finish(<<PollOutcome.state>>, PollOutcome.by) /\ UNCHANGED polling
             ELSE /\ dphase' = "waiting"
                  /\ polling' = TRUE
                  /\ UNCHANGED <<trail, decidedBy>>

\* The 'close' (or late 'error') event of the background process
ChildExit(code) ==
  /\ child = "running"
  /\ child' = IF code = 0 THEN "exit0" ELSE "exitFail"
  /\ dstep' = "exit"
  /\ UNCHANGED <<dphase, request, trail, launched, beforeDispatch, activeMatch, polling,
                 decidedBy, viewAtCall, viewCalls, echoedBeforeExit,
                 fsVars, engineVars, watcherVars, auxVars>>

\* A loop whose result is reported although the timeout has already failed
\* the dispatch
PollWakeReportsLate ==
  /\ polling
  /\ dstep' = "poll"
  /\ UNCHANGED <<request, launched, child, beforeDispatch, activeMatch, viewAtCall, viewCalls,
                 echoedBeforeExit, fsVars, engineVars, watcherVars, auxVars>>
  /\ polling' = (PollOutcome.state = "sleep")
  /\ IF PollOutcome.state # "sleep"
     THEN Finish(<<PollOutcome.state>>, PollOutcome.by)
     ELSE UNCHANGED <<dphase, trail, decidedBy>>

\* sleepMs(120) elapses: the next iteration of the acknowledgement loop
PollWake ==
  /\ polling
  /\ dstep' = "poll"
  /\ UNCHANGED <<request, launched, child, beforeDispatch, activeMatch, viewAtCall, viewCalls,
                 echoedBeforeExit,
                 fsVars, engineVars, watcherVars, auxVars>>
  /\ polling' = (PollOutcome.state = "sleep")
  /\ IF dphase = "waiting" /\ PollOutcome.state # "sleep"
     THEN Finish(<<PollOutcome.state>>, PollOutcome.by)
     ELSE UNCHANGED <<dphase, trail, decidedBy>>

\* A timer that is armed only once the process has exited
TimeoutFireAfterExit ==
  /\ dphase = "waiting"
  /\ child # "running"
  /\ dstep' = "timeout"
  /\ Finish(<<"failed">>, "timeout")
  /\ UNCHANGED <<request, launched, child, beforeDispatch, activeMatch, polling, viewAtCall, viewCalls,
                 echoedBeforeExit,
                 fsVars, engineVars, watcherVars, auxVars>>

\* The timer of runWithTimeout fires
TimeoutFire ==
  /\ dphase = "waiting"
  /\ dstep' = "timeout"
  /\ Finish(<<"failed">>, "timeout")
  /\ UNCHANGED <<request, launched, child, beforeDispatch, activeMatch, polling, viewAtCall, viewCalls,
                 echoedBeforeExit,
                 fsVars, engineVars, watcherVars, auxVars>>

\* An interactive launch that reports sent whatever the exit code
InteractiveEndIgnoresExitCode(ok) ==
  /\ dphase = "interactive"
  /\ dstep' = "interactive"
  /\ child' = IF child = "foreground" THEN (IF ok THEN "exit0" ELSE "exitFail") ELSE child
  /\ Finish(<<"sent">>, "interactive")
  /\ UNCHANGED <<request, launched, beforeDispatch, activeMatch, polling, viewAtCall, viewCalls,
                 echoedBeforeExit,
                 fsVars, engineVars, watcherVars, auxVars>>

\* The interactive launch settles: the promise of launchInteractiveSession
\* (VS Code), or the 'close' event of the process runInteractiveInTerminal
\* spawned, with exit code 0 (ok) or another
InteractiveEnd(ok) ==
  /\ dphase = "interactive"
  /\ dstep' = "interactive"
  /\ child' = IF child = "foreground" THEN (IF ok THEN "exit0" ELSE "exitFail") ELSE child
  /\ Finish(<<IF ok THEN "sent" ELSE "failed">>, "interactive")
  /\ UNCHANGED <<request, launched, beforeDispatch, activeMatch, polling, viewAtCall, viewCalls,
                 echoedBeforeExit,
                 fsVars, engineVars, watcherVars, auxVars>>

InitDispatch ==
  /\ dphase = "idle"
  /\ request = NoRequest
  /\ trail = << >>
  /\ launched = << >>
  /\ child = "none"
  /\ beforeDispatch = NoSnapshot
  /\ activeMatch = NoMatch
  /\ polling = FALSE
  /\ decidedBy = "none"
  /\ viewAtCall = << >>
  /\ viewCalls = 0
  /\ echoedBeforeExit = FALSE
  /\ dstep = "none"

-----------------------------------------------------------------------------
(* Specifications *)

InitBatching ==
  /\ sessions = [k \in {} |-> NewSessionState]
  /\ flushQueue = << >>
  /\ queuedSessions = {}
  /\ generating = FALSE
  /\ paused = FALSE
  /\ inflight = {}
  /\ accepted = [k \in Keys |-> 0]
  /\ requests = << >>
  /\ engineEmitted = << >>
  /\ estep = <<"none", 0>>
  /\ timerDue = [k \in Keys |-> [idle |-> 0, max |-> 0]]
  /\ burst = [types |-> << >>, first |-> 0, last |-> 0]

InitEngine ==
  /\ InitBatching
  /\ generation = NoGeneration

-----------------------------------------------------------------------------
(* Summary interval *)

SUMMARY_INTERVAL_OPTIONS == {15000, 30000, 60000, 300000, 900000, 3600000}

DEFAULT_SUMMARY_INTERVAL_MS == 30000

SUMMARY_MAX_WAIT_MULTIPLIER == 3

NormalizeSummaryIntervalMs(value, fallback) ==
  IF value \in SUMMARY_INTERVAL_OPTIONS THEN value
  ELSE IF fallback \in SUMMARY_INTERVAL_OPTIONS THEN fallback
  ELSE DEFAULT_SUMMARY_INTERVAL_MS

\* A max-wait of twice the interval
SummaryIntervalMaxWaitMsDouble(ms) ==
  NormalizeSummaryIntervalMs(ms, DEFAULT_SUMMARY_INTERVAL_MS) * 2

SummaryIntervalMaxWaitMs(ms) ==
  NormalizeSummaryIntervalMs(ms, DEFAULT_SUMMARY_INTERVAL_MS) * SUMMARY_MAX_WAIT_MULTIPLIER

\* What callers hand to setSummaryIntervalMs: the options, and two values
\* that are no option
IntervalInputs == SUMMARY_INTERVAL_OPTIONS \cup {0, 45000}

NoTimers == [idle |-> 0, max |-> 0]

InitSummary ==
  tuning = [intervalMs |-> DEFAULT_SUMMARY_INTERVAL_MS,
             previousMs |-> DEFAULT_SUMMARY_INTERVAL_MS,
             timers |-> [k \in Keys |-> NoTimers],
             pending |-> [k \in Keys |-> 0],
             emitted |-> << >>,
             step |-> "init"]

\* CommentaryEngine.setSummaryIntervalMs. The value is normalized; what an
\* unsupported value falls back to (the interval in force or the default)
\* and whether a call that changes nothing emits are left open.
SetSummaryIntervalMs(ms, fallback, emitsAnyway) ==
  LET normalized == NormalizeSummaryIntervalMs(ms, fallback)
      changed == normalized # tuning.intervalMs
      rearmed == [k \in Keys |->
                    [idle |-> IF tuning.timers[k].idle # 0 THEN normalized ELSE 0,
                     max |-> IF tuning.timers[k].max # 0
                             THEN SummaryIntervalMaxWaitMs(normalized) ELSE 0]]
  IN /\ fallback \in {tuning.intervalMs, DEFAULT_SUMMARY_INTERVAL_MS}
     /\ changed => emitsAnyway
     /\ tuning' = [tuning EXCEPT
                       !.intervalMs = normalized,
                       !.previousMs = tuning.intervalMs,
                       !.timers = IF changed THEN rearmed ELSE @,
                       !.emitted = IF emitsAnyway
                                   THEN <<[event |-> "summary-interval-changed",
                                           value |-> normalized]>>
                                   ELSE << >>,
                       !.step = "setSummaryIntervalMs"]
     /\ UNCHANGED <<engineVars, fsVars, watcherVars, dispatchVars, built, shared, titling, formats, assessed, arrivals, tailing>>

\* addEvent of an engine with a selectable interval: the idle timer is
\* re-armed, the max-wait timer armed with the first event of the batch
IntervalAddEvent(key) ==
  /\ tuning.pending[key] < MaxIntervalEvents
  /\ tuning' = [tuning EXCEPT
                    !.previousMs = tuning.intervalMs,
                    !.pending[key] = @ + 1,
                    !.timers[key] = [idle |-> tuning.intervalMs,
                                     max |-> IF @.max # 0 THEN @.max
                                             ELSE SummaryIntervalMaxWaitMs(tuning.intervalMs)],
                    !.emitted = << >>,
                    !.step = "addEvent"]
  /\ UNCHANGED <<engineVars, fsVars, watcherVars, dispatchVars, built, shared, titling, formats, assessed, arrivals, tailing>>

\* A timer of the session fires: both are cleared and the batch is taken
IntervalTimerFires(key) ==
  /\ tuning.timers[key] # NoTimers
  /\ tuning' = [tuning EXCEPT
                    !.previousMs = tuning.intervalMs,
                    !.pending[key] = 0,
                    !.timers[key] = NoTimers,
                    !.emitted = << >>,
                    !.step = "timer"]
  /\ UNCHANGED <<engineVars, fsVars, watcherVars, dispatchVars, built, shared, titling, formats, assessed, arrivals, tailing>>

-----------------------------------------------------------------------------
(* Shared settings *)

\* String(n) for the numbers that are written
NumberToString(n) == CASE n = 15000 -> "15000"
                       [] n = 30000 -> "30000"
                       [] n = 60000 -> "60000"
                       [] n = 300000 -> "300000"
                       [] n = 900000 -> "900000"
                       [] n = 3600000 -> "3600000"

\* What the settings file may hold: what persist writes, and what another
\* program or an editor leaves there
SettingsTexts == {NumberToString(n) : n \in SUMMARY_INTERVAL_OPTIONS}
                 \cup {"1234", "abc", "Infinity", "1.5e4", " 60000 ", " ", ""}

\* String.prototype.trim on the texts of the settings file
TrimSetting(text) == CASE text = " 60000 " -> "60000"
                       [] text = " " -> ""
                       [] OTHER -> text

\* Number(raw) for a trimmed, non-empty raw
StringToNumber(raw) == CASE raw = "15000" -> [finite |-> TRUE, value |-> 15000]
                         [] raw = "30000" -> [finite |-> TRUE, value |-> 30000]
                         [] raw = "60000" -> [finite |-> TRUE, value |-> 60000]
                         [] raw = "300000" -> [finite |-> TRUE, value |-> 300000]
                         [] raw = "900000" -> [finite |-> TRUE, value |-> 900000]
                         [] raw = "3600000" -> [finite |-> TRUE, value |-> 3600000]
                         [] raw = "1234" -> [finite |-> TRUE, value |-> 1234]
                         [] raw = "1.5e4" -> [finite |-> TRUE, value |-> 15000]
                         [] OTHER -> [finite |-> FALSE, value |-> 0]

\* readSharedValue: the trimmed content, "" for undefined. readable: the
\* file system calls do not throw.
ReadSharedValue(file, readable) ==
  IF ~readable \/ ~file.exists THEN "" ELSE TrimSetting(file.text)

\* A read that ignores the caller's fallback
ReadSharedSummaryIntervalMsDefaultOnly(file, fallback, readable) ==
  LET raw == ReadSharedValue(file, readable)
  IN IF raw = "" THEN DEFAULT_SUMMARY_INTERVAL_MS
     ELSE IF ~StringToNumber(raw).finite THEN DEFAULT_SUMMARY_INTERVAL_MS
     ELSE NormalizeSummaryIntervalMs(StringToNumber(raw).value, DEFAULT_SUMMARY_INTERVAL_MS)

ReadSharedSummaryIntervalMs(file, fallback, readable) ==
  LET raw == ReadSharedValue(file, readable)
  IN IF raw = "" THEN NormalizeSummaryIntervalMs(fallback, DEFAULT_SUMMARY_INTERVAL_MS)
     ELSE IF ~StringToNumber(raw).finite
          THEN NormalizeSummaryIntervalMs(fallback, DEFAULT_SUMMARY_INTERVAL_MS)
     ELSE NormalizeSummaryIntervalMs(StringToNumber(raw).value, fallback)

InitShared ==
  shared = [file |-> [exists |-> FALSE, text |-> ""], persisted |-> 0, step |-> "init",
            arg |-> 0, done |-> FALSE, result |-> 0]

\* persistSharedSummaryIntervalMs. writable: mkdirSync and writeFileSync do
\* not throw; when they do, the file stays as it is (best effort).
\* persisted is the argument of the call that wrote what the file holds
\* (0: the file is not there, or something else wrote it).
PersistSharedSummaryIntervalMs(intervalMs, writable) ==
  /\ shared' = [file |-> IF writable
                         THEN [exists |-> TRUE,
                               text |-> NumberToString(NormalizeSummaryIntervalMs(
                                           intervalMs, DEFAULT_SUMMARY_INTERVAL_MS))]
                         ELSE shared.file,
                persisted |-> IF writable THEN intervalMs ELSE shared.persisted,
                step |-> "persist", arg |-> intervalMs, done |-> writable, result |-> 0]
  /\ UNCHANGED <<engineVars, fsVars, watcherVars, dispatchVars, built, tuning, titling, formats, assessed, arrivals, tailing>>

\* One call of readSharedSummaryIntervalMs(fallback)
ReadShared(fallback, readable) ==
  /\ shared' = [file |-> shared.file, persisted |-> shared.persisted, step |-> "read",
                arg |-> fallback, done |-> readable,
                result |-> ReadSharedSummaryIntervalMs(shared.file, fallback, readable)]
  /\ UNCHANGED <<engineVars, fsVars, watcherVars, dispatchVars, built, tuning, titling, formats, assessed, arrivals, tailing>>

\* Something else writes the file, or removes it
SettingsFileEdited(text) ==
  /\ shared' = [file |-> [exists |-> TRUE, text |-> text], persisted |-> 0, step |-> "edited",
                arg |-> 0, done |-> TRUE, result |-> 0]
  /\ UNCHANGED <<engineVars, fsVars, watcherVars, dispatchVars, built, tuning, titling, formats, assessed, arrivals, tailing>>

SettingsFileRemoved ==
  /\ shared.file.exists
  /\ shared' = [file |-> [exists |-> FALSE, text |-> ""], persisted |-> 0, step |-> "removed",
                arg |-> 0, done |-> TRUE, result |-> 0]
  /\ UNCHANGED <<engineVars, fsVars, watcherVars, dispatchVars, built, tuning, titling, formats, assessed, arrivals, tailing>>

-----------------------------------------------------------------------------
(* Session titles *)

MaxTitleLines == 2
MaxStoreWrites == 2

\* A prompt this program hands to a provider, on one line
KibitzPromptText ==
  "You oversee AI coding agents. Summarize what they did. Format for this message: bullets"

\* The texts a log line offers as a title, and the titles the store holds
TitleTexts == {"Fix login flow", "<b>Fix</b>  login flow", "019c9b80", "Session: 019C9B80AA",
               "Fix it", KibitzPromptText}

StoreTexts == {"Ship the release", "019c9b80"}

\* String.prototype.toLowerCase on these texts
LowerTitle(text) ==
  CASE text = "Fix login flow" -> "fix login flow"
    [] text = "Session: 019C9B80AA" -> "session: 019c9b80aa"
    [] text = "Fix it" -> "fix it"
    [] text = "Ship the release" -> "ship the release"
    [] text = KibitzPromptText ->
         "you oversee ai coding agents. summarize what they did. format for this message: bullets"
    [] OTHER -> text

\* looksLikeKibitzGeneratedPrompt: the text holds both phrases of a prompt
LooksLikeKibitzGeneratedPrompt(text) ==
  text = "you oversee ai coding agents. summarize what they did. format for this message: bullets"

\* looksLikeSessionIdentifier: eight hex digits, "session" and hex digits
LooksLikeSessionIdentifier(text) == text \in {"019c9b80", "session: 019c9b80aa"}

\* isNoiseSessionTitle: shorter than 8 characters, an identifier, an
\* instruction of a prompt
IsNoiseSessionTitle(text) ==
  LET normalized == LowerTitle(text)
  IN \/ normalized \in {"fix it"}
     \/ LooksLikeSessionIdentifier(normalized)
     \/ LooksLikeKibitzGeneratedPrompt(normalized)

\* pickSessionTitle of a text of one line: tags replaced by blanks, runs of
\* white space collapsed, trimmed; "" stands for undefined
PickSessionTitle(raw) ==
  IF raw = "" THEN ""
  ELSE IF LooksLikeKibitzGeneratedPrompt(LowerTitle(raw)) THEN ""
  ELSE LET cleaned == IF raw = "<b>Fix</b>  login flow" THEN "Fix login flow" ELSE raw
       IN IF IsNoiseSessionTitle(cleaned) THEN "" ELSE cleaned

\* readCodexThreadTitles: the cache as it is after the call. The snapshot is
\* kept while the store cannot be read or has the modification time of the
\* snapshot.
ReadCodexThreadTitles(cache, store) ==
  IF ~store.exists \/ store.mtime = cache.mtime THEN cache
  ELSE [mtime |-> store.mtime, title |-> PickSessionTitle(store.raw)]

\* extractCodexSessionTitleFromLog: the first session_meta line with a title
ExtractCodexSessionTitleFromLog(log) ==
  LET idx == {i \in 1..Len(log) : log[i].type = "session_meta" /\ PickSessionTitle(log[i].text) # ""}
  IN IF idx = {} THEN "" ELSE PickSessionTitle(log[CHOOSE i \in idx : \A j \in idx : i <= j].text)

\* extractCodexSessionTitle: the title of the store, else one of the log
ExtractCodexSessionTitle(log, threadTitle) ==
  IF threadTitle # "" THEN threadTitle ELSE ExtractCodexSessionTitleFromLog(log)

\* extractSessionTitleFromLine of a Codex line
ExtractSessionTitleFromLine(line) ==
  IF line.type \in {"session_meta", "user_message"} THEN PickSessionTitle(line.text) ELSE ""

\* A record that takes the title of the store only while it has none
ReconcileCodexSessionTitleKeepsOwn(sessionTitle, threadTitle) ==
  IF sessionTitle # "" /\ ~IsNoiseSessionTitle(sessionTitle) THEN sessionTitle ELSE threadTitle

\* reconcileCodexSessionTitle: the title of the record after the call
ReconcileCodexSessionTitle(sessionTitle, threadTitle) ==
  IF threadTitle # "" THEN threadTitle
  ELSE IF sessionTitle # "" /\ IsNoiseSessionTitle(sessionTitle) THEN ""
  ELSE sessionTitle

\* The lines of a Codex log: session metadata with a title, a user message,
\* a tool call
TitleLines == [type : {"session_meta", "user_message"}, text : TitleTexts]
              \cup {[type |-> "function_call", text |-> ""]}

\* The title of the store as a reader of the store file finds it
StoreTitle(store) == IF store.exists THEN PickSessionTitle(store.raw) ELSE ""

InitTitles ==
  titling = [store |-> [exists |-> FALSE, raw |-> "", mtime |-> 0],
             cache |-> [mtime |-> -1, title |-> ""],
             log |-> << >>,
             rec |-> [watched |-> FALSE, offset |-> 0, ignore |-> FALSE, sessionTitle |-> ""],
             prior |-> "", out |-> << >>, view |-> << >>, step |-> "init"]

\* The agent appends a line to the log
TitleLineAppended(line) ==
  /\ Len(titling.log) < MaxTitleLines
  /\ titling' = [titling EXCEPT !.log = Append(@, line), !.out = << >>, !.view = << >>,
                                !.step = "append"]
  /\ UNCHANGED <<engineVars, fsVars, watcherVars, dispatchVars, built, shared, tuning, formats, assessed, arrivals, tailing>>

\* Codex writes a title of the session to its state file
StoreWritten(raw) ==
  /\ titling.store.mtime < MaxStoreWrites
  /\ titling' = [titling EXCEPT !.store = [exists |-> TRUE, raw |-> raw, mtime |-> @.mtime + 1],
                                !.out = << >>, !.view = << >>, !.step = "store"]
  /\ UNCHANGED <<engineVars, fsVars, watcherVars, dispatchVars, built, shared, tuning, formats, assessed, arrivals, tailing>>

\* The state file is removed
StoreRemoved ==
  /\ titling.store.exists
  /\ titling' = [titling EXCEPT !.store.exists = FALSE,
                                !.out = << >>, !.view = << >>, !.step = "unstore"]
  /\ UNCHANGED <<engineVars, fsVars, watcherVars, dispatchVars, built, shared, tuning, formats, assessed, arrivals, tailing>>

\* watchFile, the title of the record it builds
WatchFileTitle ==
  /\ ~titling.rec.watched
  /\ LET cache == ReadCodexThreadTitles(titling.cache, titling.store)
         internal == \E i \in 1..Len(titling.log) :
                        /\ titling.log[i].type = "user_message"
                        /\ LooksLikeKibitzGeneratedPrompt(LowerTitle(titling.log[i].text))
     IN titling' = [titling EXCEPT
                      !.cache = cache,
                      !.rec = [watched |-> TRUE, offset |-> Len(titling.log), ignore |-> internal,
                               sessionTitle |-> ExtractCodexSessionTitle(titling.log, cache.title)],
                      !.prior = "", !.out = << >>, !.view = << >>, !.step = "watch"]
  /\ UNCHANGED <<engineVars, fsVars, watcherVars, dispatchVars, built, shared, tuning, formats, assessed, arrivals, tailing>>

\* The loop of readNewLines over the new lines: the title and the ignore
\* flag of the record, the titles of the events emitted
RECURSIVE ReadLoopTitle(_, _, _, _)
ReadLoopTitle(lines, log, threadTitle, st) ==
  IF lines = << >> THEN st
  ELSE LET line == Head(lines)
       IN IF line.type = "user_message" /\ LooksLikeKibitzGeneratedPrompt(LowerTitle(line.text))
          THEN [st EXCEPT !.ignore = TRUE]
          ELSE LET fromStore == IF st.sessionTitle = ""
                                THEN ExtractCodexSessionTitle(log, threadTitle)
                                ELSE st.sessionTitle
                   title == IF fromStore = "" THEN ExtractSessionTitleFromLine(line) ELSE fromStore
                   events == IF line.type = "user_message" THEN << >>
                             ELSE <<IF title # "" THEN title ELSE "codex session">>
               IN ReadLoopTitle(Tail(lines), log, threadTitle,
                                [st EXCEPT !.sessionTitle = title, !.out = @ \o events])

\* readNewLines, the titles
ReadNewLinesTitle ==
  /\ titling.rec.watched
  /\ IF titling.rec.ignore
     THEN titling' = [titling EXCEPT !.rec.offset = Len(titling.log), !.prior = titling.rec.sessionTitle,
                                     !.out = << >>, !.view = << >>, !.step = "read"]
     ELSE LET cache == ReadCodexThreadTitles(titling.cache, titling.store)
              reconciled == ReconcileCodexSessionTitle(titling.rec.sessionTitle, cache.title)
              st == ReadLoopTitle(SubSeq(titling.log, titling.rec.offset + 1, Len(titling.log)),
                                  titling.log, cache.title,
                                  [sessionTitle |-> reconciled, ignore |-> FALSE, out |-> << >>])
          IN titling' = [titling EXCEPT
                           !.cache = cache,
                           !.rec = [watched |-> TRUE, offset |-> Len(titling.log),
                                    ignore |-> st.ignore, sessionTitle |-> st.sessionTitle],
                           !.prior = titling.rec.sessionTitle,
                           !.out = st.out, !.view = << >>, !.step = "read"]
  /\ UNCHANGED <<engineVars, fsVars, watcherVars, dispatchVars, built, shared, tuning, formats, assessed, arrivals, tailing>>

\* getActiveSessions, the titles of the Session View
GetActiveSessionsTitle ==
  /\ titling.rec.watched
  /\ IF titling.rec.ignore
     THEN titling' = [titling EXCEPT !.prior = titling.rec.sessionTitle,
                                     !.out = << >>, !.view = << >>, !.step = "view"]
     ELSE LET cache == ReadCodexThreadTitles(titling.cache, titling.store)
              reconciled == ReconcileCodexSessionTitle(titling.rec.sessionTitle, cache.title)
          IN titling' = [titling EXCEPT
                           !.cache = cache, !.rec.sessionTitle = reconciled,
                           !.prior = titling.rec.sessionTitle,
                           !.out = << >>, !.view = <<reconciled>>, !.step = "view"]
  /\ UNCHANGED <<engineVars, fsVars, watcherVars, dispatchVars, built, shared, tuning, formats, assessed, arrivals, tailing>>

-----------------------------------------------------------------------------
(* Format templates *)

MaxFormatPicks == 3

\* COMMENTARY_STYLE_OPTIONS, the ids of its first three options in order
StyleOrder == <<"bullets", "one-liner", "headline-context">>

DEFAULT_FORMAT_STYLE_IDS == StyleOrder

\* FORMAT_TEMPLATES: the template of a style, by its first words
FormatTemplate(styleId) ==
  CASE styleId = "bullets" -> "Use bullet points."
    [] styleId = "one-liner" -> "Write a single sentence."
    [] styleId = "headline-context" -> "Start with a short UPPER CASE reaction"

\* What callers hand to setFormatStyles: sets of ids, known and unknown
StyleInputs == SUBSET {"bullets", "one-liner", "headline-context", "haiku"}

\* normalizeFormatStyles: the known ids in the order of the options, all of
\* them when none is requested
NormalizeFormatStyles(styleIds) ==
  LET normalized == SelectSeq(StyleOrder, LAMBDA styleId : styleId \in styleIds)
  IN IF Len(normalized) > 0 THEN normalized ELSE DEFAULT_FORMAT_STYLE_IDS

InitFormats ==
  formats = [enabledFormatStyleIds |-> DEFAULT_FORMAT_STYLE_IDS, lastFormatStyleId |-> "null",
             previous |-> "null", picked |-> "null", picks |-> 0, step |-> "init"]

\* setFormatStyles
SetFormatStyles(styleIds) ==
  /\ LET next == NormalizeFormatStyles(styleIds)
     IN IF next = formats.enabledFormatStyleIds
        THEN formats' = [formats EXCEPT !.step = "same"]
        ELSE formats' = [formats EXCEPT
                           !.enabledFormatStyleIds = next,
                           !.lastFormatStyleId =
                              IF @ # "null" /\ \A i \in 1..Len(next) : next[i] # @
                              THEN "null" ELSE @,
                           !.step = "set"]
  /\ UNCHANGED <<engineVars, fsVars, watcherVars, dispatchVars, built, shared, tuning, titling, assessed, arrivals, tailing>>

\* pickFormat, called once by each generation request; Math.random picks
\* any member of the pool
PickFormat(pickedStyleId) ==
  /\ formats.picks < MaxFormatPicks
  /\ LET enabled == IF Len(formats.enabledFormatStyleIds) > 0
                    THEN formats.enabledFormatStyleIds ELSE DEFAULT_FORMAT_STYLE_IDS
         pool == IF formats.lastFormatStyleId # "null" /\ Len(enabled) > 1
                 THEN SelectSeq(enabled, LAMBDA styleId : styleId # formats.lastFormatStyleId)
                 ELSE enabled
     IN /\ \E i \in 1..Len(pool) : pool[i] = pickedStyleId
        /\ formats' = [formats EXCEPT !.lastFormatStyleId = pickedStyleId,
                                      !.previous = formats.picked,
                                      !.picked = pickedStyleId,
                                      !.picks = @ + 1, !.step = "pick"]
  /\ UNCHANGED <<engineVars, fsVars, watcherVars, dispatchVars, built, shared, tuning, titling, assessed, arrivals, tailing>>

-----------------------------------------------------------------------------
(* The assessment of a batch *)

MaxAssessEvents == 6

\* The events of the batches that are assessed: a test run, an edit, a read,
\* a command that is no test, a message with an error signal, a plain message
AssessEvents == {ToolCall("bash", TestCommand, "", "Running: npm test"),
                 ToolCall("edit", "", "src/app.ts", "Editing src/app.ts"),
                 ToolCall("read", "", ".env", "Reading .env"),
                 ToolCall("bash", NoVerifyCommit, "", "Running: git commit --no-verify"),
                 Message("Build failed with an error"),
                 Message("Thinking about the fix")}

InitAssessed == assessed = [events |-> << >>, done |-> FALSE, result |-> NoSignal]

\* The batch that will be assessed gets an event
AssessedBatchGrows(ev) ==
  /\ Len(assessed.events) < MaxAssessEvents
  /\ assessed' = [events |-> Append(assessed.events, ev), done |-> FALSE, result |-> NoSignal]
  /\ UNCHANGED <<engineVars, fsVars, watcherVars, dispatchVars, built, shared, tuning, titling,
                 formats, arrivals, tailing>>

\* An assessment that calls a batch blocked from two error signals on
AssessBlockedAtTwoErrors ==
  /\ ~assessed.done
  /\ assessed.events # << >>
  /\ LET a == BuildCommentaryAssessment(assessed.events, "")
     IN assessed' = [assessed EXCEPT !.done = TRUE,
                        !.result = IF a.activitySummary.counts[6] >= 2 /\ a.activitySummary.counts[2] = 0
                                      /\ a.activitySummary.counts[5] = 0
                                   THEN [a EXCEPT !.direction = "blocked"] ELSE a]
  /\ UNCHANGED <<engineVars, fsVars, watcherVars, dispatchVars, built, shared, tuning, titling,
                 formats, arrivals, tailing>>

\* generateCommentary assesses the batch
Assess ==
  /\ ~assessed.done
  /\ assessed.events # << >>
  /\ assessed' = [assessed EXCEPT !.done = TRUE,
                                  !.result = BuildCommentaryAssessment(assessed.events, "")]
  /\ UNCHANGED <<engineVars, fsVars, watcherVars, dispatchVars, built, shared, tuning, titling,
                 formats, arrivals, tailing>>

-----------------------------------------------------------------------------
(* Runs of events: addEvent called several times in a row, as the loop of
   readNewLines does for the lines of one change of a file *)

MaxRuns == 3

\* The lengths of the runs: one event, as many as the hard cap
RunLengths == {1, MAX_BATCH_SIZE}

InitArrivals == arrivals = 0

\* n calls of addEvent for the session, the events numbered from first on
RECURSIVE AcceptEvents(_, _, _, _)
AcceptEvents(e, key, first, n) ==
  IF n = 0 THEN e
  ELSE LET e1 == AcceptEvent(e, key, <<key, first>>)
       IN IF e1.generating \in BOOLEAN THEN AcceptEvents(e1, key, first + 1, n - 1) ELSE e

AddEvents(key, n) ==
  /\ ~paused
  /\ arrivals < MaxRuns
  /\ arrivals' = arrivals + 1
  /\ accepted' = [accepted EXCEPT ![key] = @ + n]
  /\ SetEngine(AcceptEvents(Engine, key, accepted[key] + 1, n))
  /\ estep' = <<"addEvent", key>>
  /\ UNCHANGED <<paused, timingVars, generation, fsVars, watcherVars, dispatchVars,
                 built, shared, tuning, titling, formats, assessed, tailing>>

\* The events of the behaviours in which a history fills up: those of the
\* first session; every other session has one event
MaxHistoryEvents == 6

\* addEvent of an event that passes the paused and event-type checks
AddCountedEvent(key) ==
  /\ ~paused
  /\ accepted[key] < (IF key = 1 THEN MaxHistoryEvents ELSE 1)
  /\ accepted' = [accepted EXCEPT ![key] = @ + 1]
  /\ SetEngine(AcceptEvent(Engine, key, <<key, accepted[key] + 1>>))
  /\ estep' = <<"addEvent", key>>
  /\ UNCHANGED <<paused, timingVars, generation, fsVars, watcherVars, dispatchVars,
                 built, shared, tuning, titling, formats, assessed, tailing, arrivals>>

-----------------------------------------------------------------------------
(* A tracked file that is read while a line is being written *)

MaxTailLines == 3

\* The bytes of line n in two pieces: its first half, and its second half
\* with the newline. A line is a JSON object (good) or malformed.
FirstHalf(n, good) == [line |-> n, half |-> 1, good |-> good]
SecondHalf(n, good) == [line |-> n, half |-> 2, good |-> good]

InitTailing == tailing = [content |-> << >>, offset |-> 0, decoded |-> << >>, events |-> << >>]

\* The agent writes the first half of its next line
AgentWritesHalfLine(good) ==
  /\ Len(tailing.content) < 2 * MaxTailLines
  /\ Len(tailing.content) % 2 = 0
  /\ tailing' = [tailing EXCEPT !.content = Append(@, FirstHalf(Len(@) \div 2 + 1, good))]
  /\ UNCHANGED <<engineVars, fsVars, watcherVars, dispatchVars, built, shared, tuning, titling,
                 formats, assessed, arrivals>>

\* The agent writes the rest of the line it has begun
AgentCompletesLine ==
  /\ Len(tailing.content) % 2 = 1
  /\ LET begun == tailing.content[Len(tailing.content)]
     IN tailing' = [tailing EXCEPT !.content = Append(@, SecondHalf(begun.line, begun.good))]
  /\ UNCHANGED <<engineVars, fsVars, watcherVars, dispatchVars, built, shared, tuning, titling,
                 formats, assessed, arrivals>>

\* chunk.split('\n').filter(l => l.trim()): the texts between the newlines
\* of the chunk, each a sequence of pieces; piece is the text begun
RECURSIVE SplitChunk(_, _)
SplitChunk(chunk, piece) ==
  IF chunk = << >> THEN (IF piece = << >> THEN << >> ELSE <<piece>>)
  ELSE IF Head(chunk).half = 2
       THEN <<Append(piece, Head(chunk))>> \o SplitChunk(Tail(chunk), << >>)
       ELSE SplitChunk(Tail(chunk), Append(piece, Head(chunk)))

\* JSON.parse in parseClaudeLine and parseCodexLine: only the whole text of
\* a good line parses
Parses(text) == Len(text) = 2 /\ text[1].half = 1 /\ text[1].good

\* readNewLines of the record of the file: the bytes from the offset to the
\* size of the file, split into lines, each handed to the decoder
ReadNewLinesOfTail ==
  /\ IF Len(tailing.content) <= tailing.offset
     THEN UNCHANGED tailing
     ELSE LET lines == SplitChunk(SubSeq(tailing.content, tailing.offset + 1, Len(tailing.content)),
                                  << >>)
          IN tailing' = [tailing EXCEPT
                           !.offset = Len(tailing.content),
                           !.decoded = @ \o lines,
                           !.events = @ \o SelectSeq(lines, Parses)]
  /\ UNCHANGED <<engineVars, fsVars, watcherVars, dispatchVars, built, shared, tuning, titling,
                 formats, assessed, arrivals>>

\* No pure function has been called, nothing has touched the interval
InitAux ==
  /\ built = NoCommand
  /\ InitShared
  /\ InitSummary
  /\ InitTitles
  /\ InitFormats
  /\ InitAssessed
  /\ InitArrivals
  /\ InitTailing

\* The engine alone
InitEngineOnly ==
  /\ InitEngine
  /\ InitAux
  /\ files = [f \in Paths |-> [exists |-> TRUE, prefixLines |-> 0, lines |-> << >>, mtime |-> 0]]
  /\ now = 0
  /\ InitWatcher
  /\ InitDispatch

NextEngine ==
  \/ \E key \in Keys, type \in EventTypes : AddEvent(key, type)
  \/ \E key \in Keys : IdleTimerFires(key)
  \/ \E key \in Keys : MaxTimerFires(key)
  \/ \E g \in inflight, ok \in BOOLEAN : GenerationCompletes(g, ok)
  \/ Pause
  \/ Resume

SpecEngine == InitEngineOnly /\ [][NextEngine]_vars

\* A fresh, unpaused engine that receives the burst
NextBurst ==
  \/ \E type \in {"tool_call", "message"} : BurstArrives(type)
  \/ BurstIdleTimerFires
  \/ BurstMaxTimerFires
  \/ \E g \in inflight, ok \in BOOLEAN : BurstGenerationCompletes(g, ok)
  \/ BurstClock

SpecBurst == InitEngineOnly /\ [][NextBurst]_vars

\* One call of generateCommentary, for every batch, title and backend output
InitCommentary ==
  /\ InitBatching
  /\ InitAux
  /\ generation \in {[NoGeneration EXCEPT !.batch = b, !.title = t, !.full = f,
                                          !.streamed = r, !.phase = "ready"] :
                        b \in Batches, t \in {"", "Fix login"}, f \in RawTexts,
                        r \in {EmptyText, <<TextLine("Agent ran one command.")>>}}
  /\ files = [f \in Paths |-> [exists |-> TRUE, prefixLines |-> 0, lines |-> << >>, mtime |-> 0]]
  /\ now = 0
  /\ InitWatcher
  /\ InitDispatch

NextCommentary ==
  \/ GenerateCommentaryStarts
  \/ \E ok \in BOOLEAN : ProviderSettles(ok)

SpecCommentary == InitCommentary /\ [][NextCommentary]_vars

\* The watcher and the log files it follows
InitWatching ==
  /\ InitEngine
  /\ InitAux
  /\ InitFiles
  /\ InitWatcher
  /\ InitDispatch

\* An agent appends a line to its log file
AgentAppends(f, line) ==
  /\ AppendLine(f, line, MaxAppends)
  /\ lastRead' = "none"
  /\ thrown' = FALSE
  /\ emitted' = << >>
  /\ UNCHANGED <<watched, everIgnored, registered, engineVars, dispatchVars, auxVars>>

LogRemoved(f) ==
  /\ RemoveFile(f)
  /\ lastRead' = "none"
  /\ thrown' = FALSE
  /\ emitted' = << >>
  /\ UNCHANGED <<watched, everIgnored, registered, engineVars, dispatchVars, auxVars>>

ClockAdvances ==
  /\ Tick
  /\ lastRead' = "none"
  /\ thrown' = FALSE
  /\ emitted' = << >>
  /\ UNCHANGED <<watched, everIgnored, registered, engineVars, dispatchVars, auxVars>>

NextWatcher ==
  \/ Scan
  \/ \E f \in Paths, vanishes \in BOOLEAN : ChangeNotification(f, vanishes)
  \/ \E f \in Paths : \E line \in WatcherLines(f) : AgentAppends(f, line)
  \/ LogRemoved("c2")
  \/ ClockAdvances

SpecWatcher == InitWatching /\ [][NextWatcher]_vars

\* One call of buildExistingDispatchCommand with arguments of the model
InitCommand ==
  /\ InitEngine
  /\ InitFiles
  /\ InitWatcher
  /\ InitDispatch
  /\ InitShared
  /\ InitSummary
  /\ InitTitles
  /\ InitFormats
  /\ InitAssessed
  /\ InitArrivals
  /\ InitTailing
  /\ built \in {[called |-> TRUE, returned |-> FALSE, target |-> t, prompt |-> p,
                  platform |-> os, result |-> NoCommand] :
                   t \in CommandTargets, p \in CommandPrompts, os \in Platforms}

NextCommand ==
  \/ BuildCommand

SpecCommand == InitCommand /\ [][NextCommand]_vars

\* The engine with few events
FewEventsArrive(key, type) ==
  /\ Cardinality(UNION {{<<k, n>> : n \in 1..accepted[k]} : k \in Keys}) < MaxFairEvents
  /\ AddEvent(key, type)

NextProgress ==
  \/ \E key \in Keys, type \in {"tool_call", "meta"} : FewEventsArrive(key, type)
  \/ \E key \in Keys : IdleTimerFires(key)
  \/ \E key \in Keys : MaxTimerFires(key)
  \/ \E g \in inflight, ok \in BOOLEAN : GenerationCompletes(g, ok)
  \/ Pause
  \/ Resume

\* The scheduling the runtime gives: an armed timer that is not cleared
\* fires, and the backend settles every call
SpecProgress ==
  /\ InitEngineOnly
  /\ [][NextProgress]_vars
  /\ \A key \in Keys : WF_vars(IdleTimerFires(key)) /\ WF_vars(MaxTimerFires(key))
  /\ WF_vars(\E g \in inflight, ok \in BOOLEAN : GenerationCompletes(g, ok))

\* The engine's interval and timers alone
NextInterval ==
  \/ \E ms \in IntervalInputs, fallback \in SUMMARY_INTERVAL_OPTIONS, emitsAnyway \in BOOLEAN :
        SetSummaryIntervalMs(ms, fallback, emitsAnyway)
  \/ \E key \in Keys : IntervalAddEvent(key)
  \/ \E key \in Keys : IntervalTimerFires(key)

SpecInterval == InitEngineOnly /\ [][NextInterval]_vars

\* The settings file and its readers and writers
NextShared ==
  \/ \E x \in IntervalInputs, writable \in BOOLEAN : PersistSharedSummaryIntervalMs(x, writable)
  \/ \E fallback \in IntervalInputs, readable \in BOOLEAN : ReadShared(fallback, readable)
  \/ \E text \in SettingsTexts : SettingsFileEdited(text)
  \/ SettingsFileRemoved

SpecShared == InitEngineOnly /\ [][NextShared]_vars

\* The titles of a Codex session
NextTitles ==
  \/ \E line \in TitleLines : TitleLineAppended(line)
  \/ \E raw \in StoreTexts : StoreWritten(raw)
  \/ StoreRemoved
  \/ WatchFileTitle
  \/ ReadNewLinesTitle
  \/ GetActiveSessionsTitle

SpecTitles == InitEngineOnly /\ [][NextTitles]_vars

\* The format styles of an engine
NextFormats ==
  \/ \E styleIds \in StyleInputs : SetFormatStyles(styleIds)
  \/ \E styleId \in {"bullets", "one-liner", "headline-context"} : PickFormat(styleId)

SpecFormats == InitEngineOnly /\ [][NextFormats]_vars

\* The assessment of the batches of up to MaxAssessEvents events
NextAssessed ==
  \/ \E ev \in AssessEvents : AssessedBatchGrows(ev)
  \/ Assess

SpecAssessed == InitEngineOnly /\ [][NextAssessed]_vars

\* The engine fed with runs of events
NextRuns ==
  \/ \E key \in Keys, n \in RunLengths : AddEvents(key, n)
  \/ \E key \in Keys : IdleTimerFires(key)
  \/ \E key \in Keys : MaxTimerFires(key)
  \/ \E g \in inflight, ok \in BOOLEAN : GenerationCompletes(g, ok)

SpecRuns == InitEngineOnly /\ [][NextRuns]_vars

\* A file that is written in pieces and read on change notifications
NextTailing ==
  \/ \E good \in BOOLEAN : AgentWritesHalfLine(good)
  \/ AgentCompletesLine
  \/ ReadNewLinesOfTail

SpecTailing == InitEngineOnly /\ [][NextTailing]_vars

\* The engine fed with enough events to fill a history
NextHistory ==
  \/ \E key \in Keys : AddCountedEvent(key)
  \/ \E key \in Keys : IdleTimerFires(key)
  \/ \E key \in Keys : MaxTimerFires(key)
  \/ \E g \in inflight, ok \in BOOLEAN : GenerationCompletes(g, ok)

SpecHistory == InitEngineOnly /\ [][NextHistory]_vars

\* The log files at the start of a dispatch behaviour: c1 holds an event of
\* session "S1", c2 a generated commentary prompt of session "s2", x1 a long
\* history
DispatchFiles ==
  [f \in Paths |->
     [exists |-> TRUE,
      prefixLines |-> IF f = "x1" THEN LongPrefixLines ELSE 0,
      lines |-> IF f = "c1"
                THEN <<[kind |-> "event", sid |-> "S1", echo |-> "none", bytes |-> SmallLineBytes]>>
                ELSE IF f = "c2"
                THEN <<[kind |-> "kibitz", sid |-> "s2", echo |-> "none", bytes |-> SmallLineBytes]>>
                ELSE << >>,
      mtime |-> 0]]

\* One call of dispatch() against the view of a watcher that has scanned
InitDispatching ==
  /\ InitEngine
  /\ InitAux
  /\ files = DispatchFiles
  /\ now = 0
  /\ watched = PruneStale(RegisterNew(<< >>, ScanOrder))
  /\ lastRead = "none"
  /\ thrown = FALSE
  /\ emitted = << >>
  /\ everIgnored = IgnoredPaths(watched)
  /\ registered = [f \in Paths |-> IF IsWatched(f) THEN [times |-> 1, lines |-> NumLines(f)]
                                    ELSE [times |-> 0, lines |-> 0]]
  /\ InitDispatch

\* The file system moves while the call is under way (or its loop alive)
TargetAppends(line) ==
  /\ dphase # "done" \/ polling
  /\ AppendLine("c1", line, MaxDispatchLines)
  /\ echoedBeforeExit' =
       (\/ echoedBeforeExit
        \/ /\ dphase = "waiting" /\ child = "running"
           /\ activeMatch.filePath = "c1"
           /\ line.echo # "none"
           /\ Includes(Lower(line.echo), Lower(FirstPromptSignature(request.prompt))))
  /\ dstep' = "env"
  /\ UNCHANGED <<dphase, request, trail, launched, child, beforeDispatch, activeMatch,
                 polling, decidedBy, viewAtCall, viewCalls, engineVars, watcherVars, auxVars>>

TargetRemoved ==
  /\ dphase # "done" \/ polling
  /\ RemoveFile("c1")
  /\ dstep' = "env"
  /\ UNCHANGED <<dphase, request, trail, launched, child, beforeDispatch, activeMatch,
                 polling, decidedBy, viewAtCall, viewCalls, echoedBeforeExit, engineVars, watcherVars, auxVars>>

\* Time passes before the call; the call itself is over within seconds
IdleTick ==
  /\ dphase = "idle"
  /\ Tick
  /\ dstep' = "env"
  /\ UNCHANGED <<dphase, request, trail, launched, child, beforeDispatch, activeMatch,
                 polling, decidedBy, viewAtCall, viewCalls, echoedBeforeExit, engineVars, watcherVars, auxVars>>

NextDispatch ==
  \/ \E target \in Targets, prompt \in Prompts, origin \in {"cli", "vscode"},
       hasLauncher \in BOOLEAN, cliFound \in BOOLEAN :
         Dispatch(target, prompt, origin, hasLauncher, cliFound)
  \/ \E ok \in BOOLEAN : SpawnResult(ok)
  \/ \E code \in {0, 1} : ChildExit(code)
  \/ PollWake
  \/ TimeoutFire
  \/ \E ok \in BOOLEAN : InteractiveEnd(ok)
  \/ \E line \in DispatchLines : TargetAppends(line)
  \/ TargetRemoved
  \/ IdleTick

SpecDispatch == InitDispatching /\ [][NextDispatch]_vars

\* The same call under the scheduling of the runtime: a spawned process
\* reports 'spawn' or 'error' and the timer of runWithTimeout fires.
\* Nothing obliges the process to exit or the target file to change.
SpecDispatchFair ==
  /\ InitDispatching
  /\ [][NextDispatch]_vars
  /\ WF_vars(\E ok \in BOOLEAN : SpawnResult(ok))
  /\ WF_vars(TimeoutFire)

-----------------------------------------------------------------------------
(* Properties *)

\* C1: at any instant at most one generation (one pending call of
\* generateCommentary) exists across all sessions of the engine.
C1_AtMostOneGeneration == Cardinality(inflight) <= 1

\* C8: after pause() the pending flush queue is empty, and while the engine
\* stays paused no batch that was queued or accumulating starts generation
\* (the set of pending generations only shrinks).
C8_PauseCancelsQueuedBatches ==
  /\ [](paused => flushQueue = << >>)
  /\ [][paused /\ paused' => inflight' \subseteq inflight]_vars

\* C4: once a record of a log file has had ignore = true, the record of
\* that file never has ignore = false again and no Activity Event is emitted
\* from the file, whatever appends, change notifications and scans follow.
C4_IgnoreIsPermanent ==
  [][\A f \in everIgnored :
       /\ IsWatched(f)' => RecordOf(f)'.ignore
       /\ ~(lastRead' = f /\ emitted' # << >>)]_vars

\* C4 fails in full: a file whose record had ignore = true has a record
\* with ignore = false, and a change notification has emitted its events.
C4_EmitsAfterIgnore ==
  \E f \in everIgnored :
     /\ IsWatched(f) /\ ~RecordOf(f).ignore
     /\ lastRead = f /\ emitted # << >>

\* C5: the byte offset of a tracked record never decreases, and after each
\* processed change notification (the file could be examined) it equals the
\* size of the file at that moment, also when the new bytes gave no event.
C5_OffsetFollowsFileSize ==
  [][\A f \in Paths :
       /\ (IsWatched(f) /\ IsWatched(f)') => RecordOf(f)'.offset >= RecordOf(f).offset
       /\ (lastRead' = f /\ files'[f].exists) => RecordOf(f)'.offset = Size(f)']_vars

\* C5 happens: a change notification has read new bytes of a long codex
\* log that gave no event (they set the ignore flag), and the offset is the
\* size of the file.
C5_Witness ==
  /\ files["x1"].prefixLines > CODEX_PROBE_LINES - 1
  /\ files["x1"].lines # << >>
  /\ lastRead = "x1"
  /\ emitted = << >>
  /\ IsWatched("x1")
  /\ RecordOf("x1").ignore
  /\ RecordOf("x1").offset = Size("x1")

\* C6: the Session View has no two entries with the same (agent, sessionId),
\* identifiers compared as the view compares them (case-insensitively);
\* every tracked record that qualifies for the view (not ignored, file
\* present, active within the window) is represented by the entry of its
\* session, which is the qualifying record of greatest last activity.
C6_ViewHasOneEntryPerSession ==
  LET view == GetActiveSessions
      Qualifies(r) == ~r.ignore /\ files[r.filePath].exists /\ ~Stale(r.filePath)
  IN /\ \A i, j \in 1..Len(view) :
          i # j => SessionKey(view[i].agent, view[i].id) # SessionKey(view[j].agent, view[j].id)
     /\ \A i \in 1..Len(view) : \E k \in 1..Len(watched) :
          /\ Qualifies(watched[k])
          /\ view[i].filePath = watched[k].filePath
          /\ view[i].id = watched[k].sessionId
          /\ view[i].agent = watched[k].agent
          /\ view[i].lastActivity = files[watched[k].filePath].mtime
     /\ \A k \in 1..Len(watched) : Qualifies(watched[k]) =>
          \E i \in 1..Len(view) :
             /\ SessionKey(view[i].agent, view[i].id) =
                  SessionKey(watched[k].agent, watched[k].sessionId)
             /\ view[i].lastActivity >= files[watched[k].filePath].mtime

\* C6 happens: two qualifying records share a session and differ in last
\* activity, and the view holds the later one.
C6_Witness ==
  \E k, m \in 1..Len(watched) :
     /\ k # m
     /\ ~watched[k].ignore /\ ~watched[m].ignore
     /\ files[watched[k].filePath].exists /\ files[watched[m].filePath].exists
     /\ ~Stale(watched[k].filePath) /\ ~Stale(watched[m].filePath)
     /\ SessionKey(watched[k].agent, watched[k].sessionId) =
          SessionKey(watched[m].agent, watched[m].sessionId)
     /\ files[watched[k].filePath].mtime < files[watched[m].filePath].mtime
     /\ \E i \in 1..Len(GetActiveSessions) :
           GetActiveSessions[i].filePath = watched[m].filePath

\* C7 (as stated): once a record holds a non-empty sessionId, the record's
\* sessionId never changes and every event emitted from the file carries it.
C7_SessionIdentityFrozen ==
  [][\A f \in Paths :
       (IsWatched(f) /\ IsWatched(f)' /\ RecordOf(f).sessionId # "") =>
          /\ RecordOf(f)'.sessionId = RecordOf(f).sessionId
          /\ lastRead' = f =>
               \A i \in 1..Len(emitted') : emitted'[i].sessionId = RecordOf(f).sessionId]_vars

\* C7 (amended): the latest event decides. Each emitted event carries its
\* own normalized identifier when that is non-empty, else the record's
\* identifier at that moment; the record's sessionId changes only in a
\* change notification that emits events, and is then the identifier of the
\* last event emitted.
C7_SessionIdFollowsLatestEvent ==
  [][\A f \in Paths :
       (IsWatched(f) /\ IsWatched(f)') =>
          /\ (lastRead' # f \/ emitted' = << >>) =>
                RecordOf(f)'.sessionId = RecordOf(f).sessionId
          /\ (lastRead' = f /\ emitted' # << >>) =>
                /\ RecordOf(f)'.sessionId = emitted'[Len(emitted')].sessionId
                /\ \A i \in 1..Len(emitted') :
                     LET own == NormalizeSessionId(emitted'[i].raw, AgentOf(f))
                         held == IF i = 1 THEN RecordOf(f).sessionId
                                 ELSE emitted'[i - 1].sessionId
                     IN emitted'[i].sessionId = IF own # "" THEN own ELSE held]_vars

\* C7 (amended) happens: one change notification emitted two events of the
\* same file with different session identifiers.
C7_Witness ==
  /\ lastRead # "none"
  /\ Len(emitted) >= 2
  /\ emitted[1].sessionId # emitted[2].sessionId
  /\ IsWatched(lastRead)
  /\ RecordOf(lastRead).sessionId = emitted[Len(emitted)].sessionId

\* The bytes appended to the target file since the snapshot hold the
\* instruction fragment
AppendedEcho ==
  /\ activeMatch # NoMatch
  /\ \E i \in 1..Len(files[activeMatch.filePath].lines) :
        /\ LineStart(activeMatch.filePath, i) >= beforeDispatch.size
        /\ files[activeMatch.filePath].lines[i].echo # "none"
        /\ Includes(Lower(files[activeMatch.filePath].lines[i].echo),
                    Lower(FirstPromptSignature(request.prompt)))

\* C2: a dispatch to an existing-session target whose (agent, sessionId) is
\* not in the Session View at the call (identifiers compared as the program
\* compares them: trimmed, case-insensitively) ends in failed, emits neither
\* started nor sent and launches nothing; and a launched command resumes
\* the requested agent's session under the requested (trimmed) sessionId.
C2_AbsentTargetFailsWithoutLaunch ==
  LET InView == \E i \in 1..Len(viewAtCall) :
                   /\ viewAtCall[i].agent = request.agent
                   /\ Lower(viewAtCall[i].id) = Lower(Trim(request.sessionId))
  IN request.kind = "existing" =>
       /\ ~InView =>
            /\ launched = << >>
            /\ \A i \in 1..Len(trail) : trail[i] \notin {"started", "sent"}
            /\ dphase = "done"
            /\ trail[Len(trail)] = "failed"
       /\ Len(launched) <= 1
       /\ \A i \in 1..Len(launched) :
            /\ launched[i].mode = "resume"
            /\ launched[i].provider = request.agent
            /\ launched[i].sessionId = Trim(request.sessionId)
            /\ activeMatch.agent = request.agent
            /\ Lower(activeMatch.id) = Lower(launched[i].sessionId)

\* C2 happens: other sessions are in the view, the well-formed target is
\* not, and the call has ended in failed right after queued.
C2_Witness ==
  /\ request.kind = "existing"
  /\ request.agent = "claude"
  /\ request.sessionId = "s2"
  /\ viewAtCall # << >>
  /\ trail = <<"queued", "failed">>
  /\ decidedBy = "inactive"
  /\ launched = << >>

\* C3 (as stated): an existing-session dispatch decided after its process
\* exited with code 0 ends in failed whenever the bytes appended to the
\* target file since the snapshot do not contain the instruction's first
\* line (read generously: its fragment, compared case-insensitively).
C3_ExitZeroNeedsFirstLine ==
  [][(dphase # "done" /\ dphase' = "done" /\ request'.kind = "existing"
        /\ child' = "exit0" /\ ~AppendedEcho')
       => trail'[Len(trail')] = "failed"]_vars

\* C3 (amended): it ends in failed whenever the fragment (first non-empty
\* line, trimmed, cut to 160 characters) has at least 4 characters and does
\* not occur, compared case-insensitively, in the target file from 2048
\* bytes before the snapshot size onward.
C3_ExitZeroNeedsFragmentInTail ==
  [][(dphase # "done" /\ dphase' = "done" /\ request'.kind = "existing"
        /\ child' = "exit0"
        /\ Length(FirstPromptSignature(request'.prompt)) >= MIN_SIGNATURE_LENGTH
        /\ ~(/\ activeMatch' # NoMatch
             /\ \E i \in 1..Len(files'[activeMatch'.filePath].lines) :
                  /\ LineStart(activeMatch.filePath, i)' >=
                       beforeDispatch'.size - TAIL_LOOKBACK_BYTES
                  /\ files'[activeMatch'.filePath].lines[i].echo # "none"
                  /\ Includes(Lower(files'[activeMatch'.filePath].lines[i].echo),
                              Lower(FirstPromptSignature(request'.prompt)))))
       => trail'[Len(trail')] = "failed"]_vars

\* C3 (amended) happens: the process exited with code 0, the target file
\* grew, the fragment stands in the file but before the bytes examined, and
\* the dispatch has failed verification.
C3_Witness ==
  /\ dphase = "done"
  /\ request.kind = "existing"
  /\ child = "exit0"
  /\ decidedBy = "verify"
  /\ trail = <<"queued", "started", "failed">>
  /\ Size(activeMatch.filePath) > beforeDispatch.size
  /\ \E i \in 1..Len(files[activeMatch.filePath].lines) :
        /\ LineStart(activeMatch.filePath, i) < beforeDispatch.size - TAIL_LOOKBACK_BYTES
        /\ Includes(Lower(files[activeMatch.filePath].lines[i].echo),
                    Lower(FirstPromptSignature(request.prompt)))

\* C9 (as stated): every call of dispatch() emits queued first; started
\* comes only second, a terminal status only last and after queued, sent
\* only after started; a finished call has its terminal status.
C9_QueuedStartedTerminal ==
  request.kind # "none" =>
    /\ trail # << >>
    /\ trail[1] = "queued"
    /\ \A i \in 2..Len(trail) : trail[i] # "queued"
    /\ \A i \in 1..Len(trail) : trail[i] = "started" => i = 2
    /\ \A i \in 1..Len(trail) : trail[i] \in {"sent", "failed"} => i = Len(trail)
    /\ \A i \in 1..Len(trail) : trail[i] = "sent" => (i = 3 /\ trail[2] = "started")
    /\ dphase = "done" <=> trail[Len(trail)] \in {"sent", "failed"}

\* C9 (amended): a call whose instruction is empty after trimming emits
\* failed alone; every other call emits queued first, then started unless
\* the target is rejected, then exactly one terminal status, sent only
\* after started, and nothing after the terminal status.
C9_StatusOrderUnlessEmptyPrompt ==
  request.kind # "none" =>
    IF PromptIsEmpty(request.prompt)
    THEN trail = <<"failed">> /\ dphase = "done"
    ELSE /\ trail \in {<<"queued", "failed">>, <<"queued", "started">>,
                       <<"queued", "started", "sent">>, <<"queued", "started", "failed">>}
         /\ dphase = "done" <=> trail[Len(trail)] \in {"sent", "failed"}

\* C9 (amended) happens: the timeout failed an existing-session dispatch,
\* its acknowledgement loop then ended, and the statuses are still queued,
\* started, failed.
C9_Witness ==
  /\ request.kind = "existing"
  /\ decidedBy = "timeout"
  /\ ~polling
  /\ dstep = "poll"
  /\ trail = <<"queued", "started", "failed">>

\* C10: when the instruction fragment was appended to the target file while
\* the launched process was running, the dispatch ends in sent, whatever
\* the later exit code of the process (set aside the dispatches ended by
\* the timeout or by the file becoming inaccessible).
C10_EchoBeforeExitMeansSent ==
  (dphase = "done" /\ echoedBeforeExit /\ decidedBy \notin {"timeout", "inaccessible"})
     => trail[Len(trail)] = "sent"

\* C11: every existing-session dispatch that has emitted started eventually
\* emits a terminal status and ends; and a dispatch that ends while its
\* process still runs and the target file shows no change ends in failed.
C11_StartedLeadsToTerminal ==
  /\ (request.kind = "existing" /\ Len(trail) >= 2 /\ trail[2] = "started")
        ~> (dphase = "done" /\ trail[Len(trail)] \in {"sent", "failed"})
  /\ [][(/\ dphase = "waiting" /\ dphase' = "done"
         /\ child' = "running"
         /\ ~HasSessionFileChanged(activeMatch.filePath, beforeDispatch)')
           => trail'[Len(trail')] = "failed"]_vars

\* C11 happens: the timeout has ended a dispatch whose process still runs
\* and whose target file is as it was before the launch.
C11_Witness ==
  /\ dphase = "done"
  /\ decidedBy = "timeout"
  /\ child = "running"
  /\ files[activeMatch.filePath].exists
  /\ ~HasSessionFileChanged(activeMatch.filePath, beforeDispatch)
  /\ trail = <<"queued", "started", "failed">>

\* C18 (as stated): a new-session dispatch has emitted sent as soon as its
\* interactive process runs, and keeps that outcome whatever the exit code.
C18_SentOnceLaunchStarted ==
  (request.kind \in {"new-claude", "new-codex"} /\ child \in {"foreground", "exit0", "exitFail"})
     => trail[Len(trail)] = "sent"

\* C18 (amended): a new-session dispatch takes no snapshot and matches no
\* session file; launched in the terminal it emits no terminal status while
\* the interactive process runs, and then sent when the process closed
\* with code 0 and failed when it closed with another code; sent through
\* the VS Code launcher needs no process of the service at all.
C18_TerminalLaunchWaitsForExit ==
  request.kind \in {"new-claude", "new-codex"} =>
    /\ beforeDispatch = NoSnapshot
    /\ activeMatch = NoMatch
    /\ child = "foreground" => (dphase = "interactive" /\ trail = <<"queued", "started">>)
    /\ child = "exit0" => trail = <<"queued", "started", "sent">>
    /\ child = "exitFail" => trail = <<"queued", "started", "failed">>
    /\ (dphase = "done" /\ trail[Len(trail)] = "sent") =>
          /\ Len(launched) = 1
          /\ launched[1].mode = "terminal" => child = "exit0"
          /\ launched[1].mode = "launcher" => child = "none"

\* C18 (amended) happens: the interactive session of a new-session dispatch
\* started in the terminal, ended with a non-zero code, and the dispatch
\* ended in failed.
C18_Witness ==
  /\ request.kind = "new-codex"
  /\ launched # << >>
  /\ launched[1].mode = "terminal"
  /\ child = "exitFail"
  /\ trail = <<"queued", "started", "failed">>

\* C19: a call of dispatch() whose instruction is empty after trimming
\* emits failed alone, by the validation of the instruction, launches
\* nothing and never calls getActiveSessions, whatever the target.
C19_EmptyInstructionFailsLocally ==
  (request.kind # "none" /\ \A i \in 1..Len(request.prompt) : Trim(request.prompt[i]) = "") =>
    /\ dphase = "done"
    /\ trail = <<"failed">>
    /\ decidedBy = "validation"
    /\ launched = << >>
    /\ child = "none"
    /\ viewCalls = 0
    /\ activeMatch = NoMatch

\* C19 happens: an instruction of blanks was dispatched to an existing
\* session that is in the Session View, and the call has ended.
C19_Witness ==
  /\ request.kind = "existing"
  /\ request.prompt = <<" ">>
  /\ FindActiveMatch(viewAtCall, request.agent, Lower(Trim(request.sessionId))) # NoMatch
  /\ trail = <<"failed">>
  /\ viewCalls = 0

\* C20: a change notification for a tracked file that is unreadable when
\* the notification ends (removed before the notification, or between the
\* size check and the read) emits no event, leaves the offset of the record
\* as it was and raises no exception out of the watcher.
C20_UnreadableFileIsAbsent ==
  [][\A f \in Paths :
       (lastRead' = f /\ ~files'[f].exists) =>
          /\ emitted' = << >>
          /\ RecordOf(f)'.offset = RecordOf(f).offset
          /\ ~thrown']_vars

\* C17: when the generation of a batch fails, the step emits `error` for the
\* session, none of the batch's events is pending again, the generating flag
\* is set only for a request the same step starts, and the head of the flush
\* queue is the first session requested in that step; no event is ever part
\* of two generation requests; a queued session leaves the queue only into a
\* request for its pending events; and while a session is queued a
\* generation is pending, whose completion runs the queue again.
RequestedEvents(i) == {requests[i].batch[n] : n \in 1..Len(requests[i].batch)}

C17_FailedBatchIsDropped ==
  /\ [][\A g \in inflight :
         (g \notin inflight' /\ estep' = <<"generationFailed", g.key>>) =>
            /\ \E n \in 1..Len(engineEmitted') :
                  engineEmitted'[n] = [event |-> "error", key |-> g.key]
            /\ \A k \in DOMAIN sessions' : \A n \in 1..Len(sessions'[k].events) :
                  \A m \in 1..Len(g.batch) : sessions'[k].events[n] # g.batch[m]
            /\ generating' = (Len(requests') > Len(requests))
            /\ flushQueue # << >> =>
                  /\ Len(requests') > Len(requests)
                  /\ requests'[Len(requests) + 1] =
                        [key |-> Head(flushQueue), batch |-> sessions[Head(flushQueue)].events]]_vars
  /\ [](\A i, j \in 1..Len(requests) : i < j => RequestedEvents(i) \cap RequestedEvents(j) = {})
  /\ [][\A k \in queuedSessions \ queuedSessions' :
         \E n \in 1..Len(requests') :
            /\ n > Len(requests)
            /\ requests'[n] = [key |-> k, batch |-> sessions[k].events]]_vars
  /\ [](flushQueue # << >> => inflight # {})

\* A generation failed while another session was queued, and the queued
\* session was requested in the same step
C17_Witness ==
  /\ estep[1] = "generationFailed"
  /\ Len(requests) = 2
  /\ requests[1].key = estep[2]
  /\ requests[2].key # estep[2]
  /\ generating
  /\ \E n \in 1..Len(engineEmitted) : engineEmitted[n].event = "error"

\* The step in which the idle timer of session k, armed by addEvent, fires
IdleTimerStep(k) ==
  /\ k \in DOMAIN sessions
  /\ sessions[k].idleTimer = "idle"
  /\ estep' = <<"idleTimer", k>>

BurstEvents == [n \in 1..Len(burst.types) |-> <<BurstKey, n, burst.types[n]>>]

BurstInWindow ==
  /\ Len(burst.types) = BurstSize
  /\ burst.last - burst.first < IDLE_TIMEOUT_MS

C16_BurstIsOneBatchInOrder ==
  BurstInWindow =>
    /\ BurstCount("tool_call") = BurstToolCalls
    /\ BurstCount("message") = BurstMessages
    /\ IF sessions[BurstKey].events = << >>
       THEN requests = <<[key |-> BurstKey, batch |-> BurstEvents]>>
       ELSE /\ requests = << >>
            /\ sessions[BurstKey].events = BurstEvents
            /\ sessions[BurstKey].idleTimer = "idle"
            /\ sessions[BurstKey].maxTimer

\* The burst arrived over more than one instant, its single batch was
\* requested by the idle timer and the generation has completed
C16_Witness ==
  /\ BurstInWindow
  /\ burst.last > burst.first
  /\ burst.types[1] = "message"
  /\ requests = <<[key |-> BurstKey, batch |-> BurstEvents]>>
  /\ inflight = {}
  /\ now < burst.first + MAX_WAIT_MS

\* The text of the entry the call emitted with commentary-done
FinalCommentary ==
  LET n == CHOOSE n \in 1..Len(generation.emitted) :
             generation.emitted[n].event = "commentary-done"
  IN generation.emitted[n].commentary

Settled == generation.phase \in {"done", "failed"}

\* An event of the batch carries a command that a security rule matches
CarriesSecurityCommand ==
  \E i \in 1..Len(generation.batch), r \in 1..Len(SECURITY_COMMAND_RULES) :
     generation.batch[i].command \in SECURITY_COMMAND_RULES[r].matches

\* A line that states the security finding of the assessment
IsSecurityCallout(l) ==
  \/ l.kind = "callout"
  \/ l.kind = "closing" /\ l.security # "clean"

\* A line that states the direction of the session
IsVerdictLine(l) ==
  \/ l.kind = "closing"
  \/ l.kind = "text" /\ l.text = "Verdict: on track."

\* C12: when an event of the batch carries a command that matches a security
\* rule, the security verdict of the assessment is not clean and the
\* commentary emitted with commentary-done has a security callout, for every
\* generated text and whether the generation succeeded or failed.
C12_SecurityCalloutAlways ==
  CarriesSecurityCommand =>
    /\ BuildCommentaryAssessment(generation.batch, generation.title).security # "clean"
    /\ Settled => \E i \in 1..Len(FinalCommentary) : IsSecurityCallout(FinalCommentary[i])

\* The first half of C12 alone: the security verdict is alert for a
\* high-severity command, watch for a medium one
C12_SecurityVerdictNotClean ==
  CarriesSecurityCommand =>
    BuildCommentaryAssessment(generation.batch, generation.title).security \in {"alert", "watch"}

\* C12 for the generations that succeed
C12_SecurityCalloutOnSuccess ==
  (CarriesSecurityCommand /\ generation.phase = "done") =>
     \E i \in 1..Len(FinalCommentary) : IsSecurityCallout(FinalCommentary[i])

\* C13: every commentary emitted with commentary-done has a line that states
\* the direction, whatever the backend produced.
C13_VerdictLineAlways ==
  Settled => \E i \in 1..Len(FinalCommentary) : IsVerdictLine(FinalCommentary[i])

\* C13 for the generations that succeed
C13_VerdictLineOnSuccess ==
  generation.phase = "done" =>
     \E i \in 1..Len(FinalCommentary) : IsVerdictLine(FinalCommentary[i])

\* Every line of the text is blank or removed by the line filter
AllLinesDropped(t) ==
  \A i \in 1..Len(t) : t[i].text \in {"", " ", "I'll check the session history."}

\* C14: no commentary-chunk or commentary-done carries an empty or blank
\* commentary, and when nothing of the generated text is left after
\* redaction and line filtering, the cleaned text is the fallback sentence,
\* which the emitted commentary then holds.
C14_CommentaryNeverEmpty ==
  /\ \A n \in 1..Len(generation.emitted) :
        generation.emitted[n].event \in {"commentary-chunk", "commentary-done"} =>
           /\ generation.emitted[n].commentary # << >>
           /\ TrimText(generation.emitted[n].commentary) # EmptyText
  /\ generation.phase = "done" =>
        /\ generation.sanitized # EmptyText
        /\ AllLinesDropped(RawOutput) =>
              /\ generation.sanitized = FallbackText
              /\ \E i \in 1..Len(FinalCommentary) : FinalCommentary[i] = FallbackText[1]

\* The backend returned a line the filter removes and a blank line, nothing
\* was streamed, and the fallback sentence was emitted
C14_Witness ==
  /\ generation.phase = "done"
  /\ generation.full = <<TextLine("I'll check the session history."), TextLine(" ")>>
  /\ generation.streamed = EmptyText
  /\ generation.sanitized = FallbackText
  /\ FinalCommentary[1] = FallbackText[1]

\* C21: with the files and the clock as they are, a second run of scan()
\* leaves the tracked records exactly as the first run left them: the same
\* records in the same order, none added, removed or reset.
C21_ScanIsIdempotent ==
  LET once == PruneStale(RegisterNew(watched, ScanOrder))
  IN PruneStale(RegisterNew(once, ScanOrder)) = once

\* scan() has run: a file that went stale is not tracked, a tracked file has
\* grown beyond its record's offset, and a second run would change nothing
C21_Witness ==
  /\ watched # << >>
  /\ watched = PruneStale(RegisterNew(watched, ScanOrder))
  /\ \E f \in Paths : files[f].exists /\ Stale(f) /\ ~IsWatched(f)
  /\ \E f \in Paths : IsWatched(f) /\ RecordOf(f).offset < Size(f)
  /\ \E f \in Paths : IsWatched(f) /\ RecordOf(f).offset > 0

\* C22: history is not replayed. A record that scan() adds starts with its
\* offset at the size the file has then, also when the file had a record
\* before that was pruned; and every Activity Event comes from a line that
\* was appended after the latest registration of its file.
C22_HistoryIsNotReplayed ==
  [][/\ \A f \in Paths :
          (registered'[f].times > registered[f].times) =>
             /\ IsWatched(f)'
             /\ RecordOf(f)'.offset = Size(f)'
             /\ registered'[f].lines = NumLines(f)'
      /\ \A i \in 1..Len(emitted') :
          /\ registered'[emitted'[i].file].times > 0
          /\ emitted'[i].line > registered'[emitted'[i].file].lines]_vars

\* A file with lines in it was pruned and registered a second time, more
\* lines were appended, and a change notification emitted events for them
C22_Witness ==
  /\ lastRead \in Paths
  /\ emitted # << >>
  /\ registered[lastRead].times = 2
  /\ registered[lastRead].lines > 0
  /\ \A i \in 1..Len(emitted) : emitted[i].line > registered[lastRead].lines

C25_ReadReturnsSupportedInterval ==
  shared.step = "read" =>
       LET text == shared.file.text
           held == IF ~shared.done \/ ~shared.file.exists THEN 0
                   ELSE IF text \in {"15000", "1.5e4"} THEN 15000
                   ELSE IF text = "30000" THEN 30000
                   ELSE IF text \in {"60000", " 60000 "} THEN 60000
                   ELSE IF text = "300000" THEN 300000
                   ELSE IF text = "900000" THEN 900000
                   ELSE IF text = "3600000" THEN 3600000
                   ELSE 0
       IN /\ shared.result \in {15000, 30000, 60000, 300000, 900000, 3600000}
          /\ shared.result = IF held # 0 THEN held
                              ELSE IF shared.arg \in {15000, 30000, 60000, 300000, 900000, 3600000}
                              THEN shared.arg
                              ELSE 30000
          /\ (shared.done /\ shared.persisted \in {15000, 30000, 60000, 300000, 900000, 3600000})
                => shared.result = shared.persisted

\* One hour was persisted and then read back with a fallback of 15 minutes
C25_Witness ==
  /\ shared.step = "read" /\ shared.done
  /\ shared.persisted = 3600000
  /\ shared.file = [exists |-> TRUE, text |-> "3600000"]
  /\ shared.arg = 900000
  /\ shared.result = 3600000

\* C26: after every step the flush queue holds each key at most once and
\* holds exactly the keys of queuedSessions; and generations start in the
\* order of the queue: the sessions a step starts, followed by the queue it
\* leaves, are the queue it found, with the session of the step appended
\* when the step queued it.
C26_QueueIsFifoWithoutDuplicates ==
  [][LET n == Len(requests)
         started == [i \in 1..(Len(requests') - n) |-> requests'[n + i].key]
     IN /\ \A i, j \in 1..Len(flushQueue') : i # j => flushQueue'[i] # flushQueue'[j]
        /\ {flushQueue'[i] : i \in 1..Len(flushQueue')} = queuedSessions'
        /\ started \o flushQueue' \in {flushQueue, Append(flushQueue, estep'[2])}]_vars

\* A generation ended with two sessions in line: the one at the head was
\* started, the session of the ended generation waits behind it
C26_Witness ==
  /\ estep[1] \in {"generated", "generationFailed"}
  /\ flushQueue = <<estep[2]>>
  /\ queuedSessions = {estep[2]}
  /\ Len(requests) >= 2
  /\ requests[Len(requests)].key # estep[2]
  /\ inflight = {requests[Len(requests)]}

\* C27: no starvation. Every event that addEvent has accepted, and that
\* waits in its session's pending events, is eventually part of the batch
\* of a generation request, when armed timers fire and generations end.
C27_NoStarvation ==
  \A k \in Keys : \A n \in 1..MaxFairEvents :
     (k \in DOMAIN sessions /\ \E i \in 1..Len(sessions[k].events) : sessions[k].events[i] = <<k, n>>)
       ~> (\E r \in 1..Len(requests) :
             \E i \in 1..Len(requests[r].batch) : requests[r].batch[i] = <<k, n>>)

\* Events of both sessions were accepted and every one of them has been
\* handed to a request, the sessions in turn; no generation is running
C27_Witness ==
  /\ Len(requests) >= 2
  /\ requests[1].key # requests[2].key
  /\ \A k \in Keys : accepted[k] > 0
  /\ \A k \in DOMAIN sessions : sessions[k].events = << >>
  /\ \A k \in Keys : \A n \in 1..accepted[k] :
        \E r \in 1..Len(requests) :
          \E i \in 1..Len(requests[r].batch) : requests[r].batch[i] = <<k, n>>
  /\ inflight = {}

\* The batches of the requests for session k among the first r requests,
\* one after the other
RECURSIVE BatchesOf(_, _)
BatchesOf(k, r) ==
  IF r = 0 THEN << >>
  ELSE BatchesOf(k, r - 1) \o (IF requests[r].key = k THEN requests[r].batch ELSE << >>)

\* C28: for every session, the batches of its generation requests in the
\* order the requests started, followed by the events still pending, are
\* the events accepted for the session in the order of acceptance: nothing
\* lost, doubled, reordered or handed to another session's request.
C28_BatchesAreTheAcceptedEvents ==
  \A k \in Keys :
     BatchesOf(k, Len(requests))
        \o (IF k \in DOMAIN sessions THEN sessions[k].events ELSE << >>)
       = [n \in 1..accepted[k] |-> <<k, n>>]

\* Three events of a session went out in two requests, with a request of
\* the other session between them
C28_Witness ==
  \E k \in Keys :
     /\ accepted[k] = 3
     /\ k \in DOMAIN sessions /\ sessions[k].events = << >>
     /\ \E a, b, c \in 1..Len(requests) :
          /\ a < b /\ b < c
          /\ requests[a].key = k /\ requests[b].key # k /\ requests[c].key = k
          /\ Len(requests[a].batch) + Len(requests[c].batch) = 3

\* C29: when a generation of a session ends, in success or in failure, and
\* events of the session are pending, the step does not leave them to the
\* timers: with at least MIN_BATCH_SIZE of them the session is in the flush
\* queue after the step, or the step itself started the request that takes
\* them; with fewer, an idle (grace) timer is armed after the step. With no
\* pending event the step starts no request for the session.
C29_RequeuedWhenGenerationEnds ==
  [][\A k \in Keys :
       (estep' \in {<<"generated", k>>, <<"generationFailed", k>>}) =>
          LET pending == sessions[k].events
              started == {r \in (Len(requests) + 1)..Len(requests') : requests'[r].key = k}
          IN /\ (pending # << >> /\ Len(pending) >= MIN_BATCH_SIZE) =>
                   \/ k \in queuedSessions' /\ sessions'[k].events = pending
                   \/ /\ \E r \in started : requests'[r].batch = pending
                      /\ sessions'[k].events = << >>
             /\ (pending # << >> /\ Len(pending) < MIN_BATCH_SIZE) =>
                   sessions'[k].idleTimer # "none"
             /\ pending = << >> => started = {} /\ k \notin queuedSessions' \ queuedSessions]_vars

\* A generation failed while events of its session were pending, and the
\* same step started the request for them
C29_Witness ==
  \E k \in Keys :
     /\ estep = <<"generationFailed", k>>
     /\ \E i \in 1..Len(engineEmitted) : engineEmitted[i] = [event |-> "error", key |-> k]
     /\ \E i \in 1..Len(engineEmitted) :
           engineEmitted[i] = [event |-> "commentary-start", key |-> k]
     /\ requests[Len(requests)].key = k
     /\ sessions[k].events = << >>
     /\ sessions[k].idleTimer # "none"

\* C30: while a session accumulates, every accepted event leaves the idle
\* timer armed, and the max-wait timer of a batch is armed by the first
\* event of that batch: none is armed when the first event of a batch
\* arrives (nothing is carried over from the batch before), and an event
\* that is not the first of its batch finds the one the first event armed.
C30_MaxTimerArmedAtFirstEvent ==
  [][\A k \in Keys :
       (estep' = <<"addEvent", k>> /\ accepted'[k] = accepted[k] + 1) =>
          LET first == k \notin DOMAIN sessions \/ sessions[k].events = << >>
              armed == k \in DOMAIN sessions /\ sessions[k].maxTimer
          IN /\ sessions'[k].idleTimer = "idle"
             /\ sessions'[k].maxTimer
             /\ first => ~armed]_vars

C32_IgnoredRecordsNotInView ==
  \A i \in 1..Len(watched) :
     watched[i].ignore =>
        \A j \in 1..Len(GetActiveSessions) : GetActiveSessions[j].filePath # watched[i].filePath

\* C32: a session that the watcher has found to be produced by the
\* system's own prompts (its record has had ignore = true) has no entry in
\* the Session View, so that a dispatch aimed at it finds it not active,
\* and no Activity Event is emitted from its file.
C32_OwnSessionsNeverInView ==
  [][\A f \in everIgnored :
       /\ \A j \in 1..Len(GetActiveSessions') : GetActiveSessions'[j].filePath # f
       /\ ~(lastRead' = f /\ emitted' # << >>)]_vars

\* C33: while the thread-title store holds a title for the session of a
\* Codex record, the events emitted from the file and the Session View entry
\* of the record carry that title; no title of an event, of the view or of the
\* record looks like a session identifier or like a generated prompt
C33_StoreTitleWins ==
  LET fromStore == StoreTitle(titling.store)
      used == {titling.out[i] : i \in 1..Len(titling.out)}
              \cup {titling.view[i] : i \in 1..Len(titling.view)}
  IN /\ fromStore # "" => \A t \in used : t = fromStore
     /\ \A t \in used \cup {titling.rec.sessionTitle} :
          /\ ~LooksLikeSessionIdentifier(LowerTitle(t))
          /\ ~LooksLikeKibitzGeneratedPrompt(LowerTitle(t))

\* C33 witness: a record that held a title of its log emits an event under
\* the title the store has got since
C33_Witness ==
  /\ titling.step = "read"
  /\ titling.out # << >>
  /\ StoreTitle(titling.store) = "Ship the release"
  /\ titling.prior = "Fix login flow"
  /\ titling.out[1] = "Ship the release"
  /\ \E i \in 1..Len(titling.log) : titling.log[i].text = "019c9b80"

\* C34: the template of a generation request is the template of an enabled
\* style, and with more than one style enabled it is not the template of the
\* generation request before it
C34_TemplateEnabledAndRotated ==
  formats.step = "pick" =>
    /\ \E i \in 1..Len(formats.enabledFormatStyleIds) :
          FormatTemplate(formats.enabledFormatStyleIds[i]) = FormatTemplate(formats.picked)
    /\ (Len(formats.enabledFormatStyleIds) > 1 /\ formats.previous # "null")
          => FormatTemplate(formats.picked) # FormatTemplate(formats.previous)

\* C35 as stated: blocked only with three or more error signals and neither a
\* write nor a test; drifting only with neither a write nor a test and enough
\* activity, that is one of the drift signals (4 reads without an edit, 6
\* commands, 2 error signals, 3 events without a progress signal); a batch
\* with a write and a test is on-track
C35_DirectionAsDocumented ==
  assessed.done =>
    LET counts == assessed.result.activitySummary.counts
        writes == counts[2]
        tests == counts[5]
        errors == counts[6]
        direction == assessed.result.direction
    IN /\ direction = "blocked" => (errors >= 3 /\ writes = 0 /\ tests = 0)
       /\ direction = "drifting" =>
            (writes = 0 /\ tests = 0 /\ assessed.result.driftSignals # << >>)
       /\ (writes > 0 /\ tests > 0) => direction = "on-track"

\* C35 amended: blocked exactly with three or more error signals and neither
\* a write nor a test; else drifting exactly with neither a write nor a test
\* and a drift signal or no progress signal at all, whatever the size of the
\* batch; else on-track
C35_DirectionFromEvidence ==
  assessed.done =>
    LET counts == assessed.result.activitySummary.counts
        writes == counts[2]
        tests == counts[5]
        errors == counts[6]
        direction == assessed.result.direction
        blocked == errors >= 3 /\ writes = 0 /\ tests = 0
        drifting == /\ ~blocked
                    /\ writes = 0 /\ tests = 0
                    /\ \/ assessed.result.driftSignals # << >>
                       \/ assessed.result.progressSignals = << >>
    IN /\ direction = "blocked" <=> blocked
       /\ direction = "drifting" <=> drifting
       /\ direction = "on-track" <=> (~blocked /\ ~drifting)
       /\ (writes > 0 /\ tests > 0) => direction = "on-track"

\* C35 witness: a batch of one plain message is drifting without a drift
\* signal
C35_Witness ==
  /\ assessed.done
  /\ Len(assessed.events) = 1
  /\ assessed.result.direction = "drifting"
  /\ assessed.result.driftSignals = << >>

\* C36: no batch handed to generateCommentary holds more than MAX_BATCH_SIZE
\* events
C36_BatchWithinHardCap ==
  \A i \in 1..Len(requests) : Len(requests[i].batch) <= MAX_BATCH_SIZE

\* C37: the engine emits commentary-start only while no entry is open, and
\* commentary-done only for the one entry that is open: with the generations
\* in flight before a step as the open entries, every commentary-start of
\* the step finds none open and every commentary-done finds its own entry,
\* and only that, open
C37_StartsAndDonesAlternate ==
  [][LET out == engineEmitted'
         Starts(i) == {j \in 1..(i - 1) : out[j].event = "commentary-start"}
         Dones(i) == {j \in 1..(i - 1) : out[j].event = "commentary-done"}
         Open(i) == Cardinality(inflight) + Cardinality(Starts(i)) - Cardinality(Dones(i))
         OpenKeys(i) == {g.key : g \in inflight} \cup {out[j].key : j \in Starts(i)}
     IN \A i \in 1..Len(out) :
          /\ out[i].event = "commentary-start" => Open(i) = 0
          /\ out[i].event = "commentary-done" => (Open(i) = 1 /\ out[i].key \in OpenKeys(i))]_vars

\* C38: once readNewLines has read up to the end of the file, the whole
\* lines among the texts handed to the decoder are the complete lines of the
\* file, each once and in file order, and the lines decoded are the good ones
\* among them
C38_CompleteLinesDecodedOnceInOrder ==
  tailing.offset = Len(tailing.content) =>
    LET Whole(text) == Len(text) = 2
        complete == [n \in 1..(Len(tailing.content) \div 2) |->
                       <<tailing.content[2 * n - 1], tailing.content[2 * n]>>]
    IN /\ SelectSeq(tailing.decoded, Whole) = complete
       /\ tailing.events = SelectSeq(complete, Parses)

\* C39: a dispatch that has emitted its terminal status has no
\* acknowledgement loop alive from some moment on: the loop does not outlive
\* the call for ever
C39_PollingEndsAfterTerminalStatus ==
  (dphase = "done") ~> ~polling

\* C40: the history of a session holds at most RECENT_COMMENTARY_LIMIT
\* entries, all of them commentary of that session; a generation of the
\* session that succeeds appends its commentary and drops the oldest entry of
\* a full history, and no other step changes the history
C40_HistoryIsRollingWindow ==
  [][\A k \in DOMAIN sessions' :
       LET old == IF k \in DOMAIN sessions THEN sessions[k].recentCommentary ELSE << >>
           new == sessions'[k].recentCommentary
           settled == {g \in inflight \ inflight' : g.key = k}
       IN /\ Len(new) <= RECENT_COMMENTARY_LIMIT
          /\ \A i \in 1..Len(new) : new[i][1] = k
          /\ IF estep' = <<"generated", k>>
             THEN \E g \in settled :
                    LET all == Append(old, g.batch[Len(g.batch)])
                    IN new = SubSeq(all, IF Len(all) > RECENT_COMMENTARY_LIMIT
                                         THEN Len(all) - RECENT_COMMENTARY_LIMIT + 1 ELSE 1,
                                    Len(all))
             ELSE new = old]_vars

\* C40 witness: a successful generation of the first session has pushed its
\* first commentary out of a full history, in a behaviour in which every
\* event of both sessions was handed to a generation of its own
C40_Witness ==
  /\ estep = <<"generated", 1>>
  /\ 1 \in DOMAIN sessions
  /\ Len(sessions[1].recentCommentary) = RECENT_COMMENTARY_LIMIT
  /\ sessions[1].recentCommentary[1] # <<1, 1>>
  /\ Len(requests) > RECENT_COMMENTARY_LIMIT + 1

====
